---- MODULE Spec2Model ----
(***************************************************************************)
(* Model of the LLM-orchestration layer of the NewsApp backend:            *)
(* FactService.RunPhaseOne (services/fact_service.go) and OpenAIService    *)
(* (services/openai_service.go): the chat-completion client, the response  *)
(* normaliser, the retry policies, the phase-one pipeline and its save.    *)
(*                                                                         *)
(* A Go string is a sequence of tokens.  A token is one structural         *)
(* character (brace, bracket, colon, comma, quote, backslash, dash, star,  *)
(* dot, space, newline), the three-backtick fence, one digit, or a word:   *)
(* a run of letters none of the functions                                  *)
(* below looks into.  Input texts, whose length in runes matters, are      *)
(* run-length encoded (see Runs below).                                    *)
(***************************************************************************)
EXTENDS Integers, Sequences, FiniteSets, TLC

VARIABLES
  db,        \* committed rows: articles, facts, gaps, topics, app_settings
  svc,       \* the OpenAIService fields: provider, model, baseURL, apiKey
  env,       \* the process environment (API keys, base URLs)
  pc,        \* position of the RunPhaseOne invocation
  inv,       \* locals of the invocation (input, languages, facts, gaps, ...)
  req,       \* the chat-completion request in flight (or NoReq)
  cj,        \* position inside callJSONCompletion / ExtractFacts' loop
  tx,        \* savePhaseOne's open transaction (uncommitted rows)
  hist,      \* history: stage calls and requests of the invocation
  runs,      \* number of invocations started
  pin,       \* argument of the pure function under check
  pout       \* its result

vars == <<db, svc, env, pc, inv, req, cj, tx, hist, runs, pin, pout>>

----------------------------------------------------------------------------
(* strings                                                                 *)

Q == "\""
BS == "\\"
SP == " "
NL == "\n"
FENCE == "~~~"

Digits == {"1", "2"}
Spaces == {SP, NL}
Structural == {"{", "}", "[", "]", ":", ",", Q, BS}

IsSpace(t) == t \in Spaces

\* a token that continues a number or a literal when it follows one
IsPlain(t) == t \notin Structural /\ t \notin Spaces

\* strings.ToLower on one token
LowerTok(t) ==
  CASE t = "Facts" -> "facts"
    [] t = "FACTS" -> "facts"
    [] t = "Gaps" -> "gaps"
    [] t = "Article" -> "article"
    [] t = "A" -> "a"
    [] t = "B" -> "b"
    [] t = "TE" -> "te"
    [] t = "GROQ" -> "groq"
    [] t = "OpenAI" -> "openai"
    [] t = "H" -> "h"
    [] t = "Telugu" -> "telugu"
    [] t = "EN" -> "en"
    [] t = "English" -> "english"
    [] t = "Sports" -> "sports"
    [] t = "Local" -> "local"
    [] t = "Weather" -> "weather"
    [] t = "Completed" -> "completed"
    [] t = "Request too large" -> "request too large"
    [] t = "RESPONSE_FORMAT" -> "response_format"
    [] t = "Context Length" -> "context length"
    [] OTHER -> t

ToLower(s) == [i \in DOMAIN s |-> LowerTok(s[i])]

EqualFold(s, t) == ToLower(s) = ToLower(t)

RECURSIVE TrimLeft(_)
TrimLeft(s) ==
  IF s = <<>> THEN s
  ELSE IF IsSpace(Head(s)) THEN TrimLeft(Tail(s)) ELSE s

RECURSIVE TrimRight(_)
TrimRight(s) ==
  IF s = <<>> THEN s
  ELSE IF IsSpace(s[Len(s)]) THEN TrimRight(SubSeq(s, 1, Len(s) - 1)) ELSE s

TrimSpace(s) == TrimRight(TrimLeft(s))

HasPrefix(s, p) == Len(s) >= Len(p) /\ SubSeq(s, 1, Len(p)) = p

HasSuffix(s, p) == Len(s) >= Len(p) /\ SubSeq(s, Len(s) - Len(p) + 1, Len(s)) = p

TrimPrefix(s, p) == IF HasPrefix(s, p) THEN SubSeq(s, Len(p) + 1, Len(s)) ELSE s

TrimSuffix(s, p) == IF HasSuffix(s, p) THEN SubSeq(s, 1, Len(s) - Len(p)) ELSE s

\* strings.Contains on a message: every phrase looked for is one token
Contains(s, phrase) == \E i \in DOMAIN s : s[i] = phrase

\* strings.Index(value, t) for a one-token t; 0 when absent
Index(s, t) ==
  IF \E i \in DOMAIN s : s[i] = t
  THEN CHOOSE i \in DOMAIN s : s[i] = t /\ \A j \in 1..(i - 1) : s[j] # t
  ELSE 0

----------------------------------------------------------------------------
(* encoding/json, as far as the service uses it                            *)

\* a parsed value: t in str, num, lit, arr, obj; val a sequence
JStr(s) == [t |-> "str", val |-> s]
JNum(s) == [t |-> "num", val |-> s]
JLit(w) == [t |-> "lit", val |-> <<w>>]
JArr(a) == [t |-> "arr", val |-> a]
JObj(m) == [t |-> "obj", val |-> m]
JNull == JLit("null")
IsNull(v) == v.t = "lit" /\ v.val = <<"null">>

Literals == {"null", "true", "false"}

ParseFail == [ok |-> FALSE, v |-> JNull, next |-> 0]
ParseOk(v, n) == [ok |-> TRUE, v |-> v, next |-> n]

At(s, i) == IF i \in DOMAIN s THEN s[i] ELSE "EOF"

RECURSIVE SkipWS(_, _)
SkipWS(s, i) == IF i \in DOMAIN s /\ IsSpace(s[i]) THEN SkipWS(s, i + 1) ELSE i

\* the body of a string literal from position j on; acc is the decoded text
RECURSIVE StrScan(_, _, _)
StrScan(s, j, acc) ==
  IF j \notin DOMAIN s THEN ParseFail
  ELSE IF s[j] = Q THEN ParseOk(JStr(acc), j + 1)
  ELSE IF s[j] = BS
    THEN IF At(s, j + 1) \in {Q, BS, "/"}
         THEN StrScan(s, j + 2, Append(acc, s[j + 1]))
         ELSE ParseFail
  ELSE IF s[j] = NL THEN ParseFail
  ELSE StrScan(s, j + 1, Append(acc, s[j]))

RECURSIVE NumEnd(_, _)
NumEnd(s, i) == IF At(s, i) \in Digits THEN NumEnd(s, i + 1) ELSE i

RECURSIVE ParseValue(_, _)
RECURSIVE ParseMembers(_, _, _)
RECURSIVE ParseElements(_, _, _)

\* the value that starts at position i (no leading white space)
ParseValue(s, i) ==
  LET c == At(s, i) IN
  IF c = Q THEN StrScan(s, i + 1, <<>>)
  ELSE IF c \in Digits
    THEN LET e == NumEnd(s, i) IN
         IF e \in DOMAIN s /\ IsPlain(s[e]) THEN ParseFail
         ELSE ParseOk(JNum(SubSeq(s, i, e - 1)), e)
  ELSE IF c \in Literals
    THEN IF (i + 1) \in DOMAIN s /\ IsPlain(s[i + 1]) THEN ParseFail
         ELSE ParseOk(JLit(c), i + 1)
  ELSE IF c = "{"
    THEN LET j == SkipWS(s, i + 1) IN
         IF At(s, j) = "}" THEN ParseOk(JObj(<<>>), j + 1)
         ELSE ParseMembers(s, j, <<>>)
  ELSE IF c = "["
    THEN LET j == SkipWS(s, i + 1) IN
         IF At(s, j) = "]" THEN ParseOk(JArr(<<>>), j + 1)
         ELSE ParseElements(s, j, <<>>)
  ELSE ParseFail

\* "key": value members from position j on, up to the closing brace
ParseMembers(s, j, acc) ==
  IF At(s, j) # Q THEN ParseFail
  ELSE LET k == StrScan(s, j + 1, <<>>) IN
    IF ~k.ok THEN ParseFail
    ELSE LET c == SkipWS(s, k.next) IN
      IF At(s, c) # ":" THEN ParseFail
      ELSE LET v == ParseValue(s, SkipWS(s, c + 1)) IN
        IF ~v.ok THEN ParseFail
        ELSE LET m == SkipWS(s, v.next)
                 acc2 == Append(acc, [k |-> k.v.val, v |-> v.v])
             IN IF At(s, m) = "}" THEN ParseOk(JObj(acc2), m + 1)
                ELSE IF At(s, m) = "," THEN ParseMembers(s, SkipWS(s, m + 1), acc2)
                ELSE ParseFail

\* array elements from position j on, up to the closing bracket
ParseElements(s, j, acc) ==
  LET v == ParseValue(s, j) IN
  IF ~v.ok THEN ParseFail
  ELSE LET m == SkipWS(s, v.next)
           acc2 == Append(acc, v.v)
       IN IF At(s, m) = "]" THEN ParseOk(JArr(acc2), m + 1)
          ELSE IF At(s, m) = "," THEN ParseElements(s, SkipWS(s, m + 1), acc2)
          ELSE ParseFail

\* the whole text as one JSON value
ParseJSON(s) ==
  LET r == ParseValue(s, SkipWS(s, 1)) IN
  IF r.ok /\ SkipWS(s, r.next) > Len(s) THEN r ELSE ParseFail

\* json.Valid
JSONValid(s) == ParseJSON(s).ok

----------------------------------------------------------------------------
(* response normaliser (openai_service.go)                                 *)

stripCodeFence(value) ==
  LET t0 == TrimSpace(value)
      t1 == TrimPrefix(t0, <<FENCE, "json">>)
      t2 == TrimPrefix(t1, <<FENCE>>)
      t3 == TrimSuffix(t2, <<FENCE>>)
  IN TrimSpace(t3)

\* the loop of extractFirstJSONObject from position i on
RECURSIVE ObjectScan(_, _, _, _, _, _)
ObjectScan(value, start, i, depth, inString, escape) ==
  IF i > Len(value) THEN <<>>
  ELSE LET ch == value[i] IN
    IF inString
    THEN IF escape THEN ObjectScan(value, start, i + 1, depth, TRUE, FALSE)
         ELSE IF ch = BS THEN ObjectScan(value, start, i + 1, depth, TRUE, TRUE)
         ELSE IF ch = Q THEN ObjectScan(value, start, i + 1, depth, FALSE, FALSE)
         ELSE ObjectScan(value, start, i + 1, depth, TRUE, FALSE)
    ELSE IF ch = Q THEN ObjectScan(value, start, i + 1, depth, TRUE, FALSE)
    ELSE IF ch = "{" THEN ObjectScan(value, start, i + 1, depth + 1, FALSE, FALSE)
    ELSE IF ch = "}"
      THEN IF depth - 1 = 0 THEN TrimSpace(SubSeq(value, start, i))
           ELSE ObjectScan(value, start, i + 1, depth - 1, FALSE, FALSE)
    ELSE ObjectScan(value, start, i + 1, depth, FALSE, FALSE)

extractFirstJSONObject(value) ==
  LET start == Index(value, "{") IN
  IF start = 0 THEN <<>>
  ELSE ObjectScan(value, start, start, 0, FALSE, FALSE)

normalizeJSONContent(content) ==
  LET clean == stripCodeFence(content)
      extracted == extractFirstJSONObject(clean)
  IN IF JSONValid(clean) THEN [ok |-> TRUE, json |-> clean]
     ELSE IF extracted # <<>> /\ JSONValid(extracted)
       THEN [ok |-> TRUE, json |-> extracted]
     ELSE [ok |-> FALSE, json |-> <<>>]

\* json.Unmarshal into a struct with one []string field tagged `field`, from
\* the parsed document r on: keys match the tag exactly or ignoring case,
\* members are decoded in order, null leaves the field alone, a value of
\* another shape is a type error (decoding goes on, the error is returned at
\* the end).
DecodeListField(r, field) ==
  LET mem == r.v.val
      hit == {i \in DOMAIN mem : ToLower(mem[i].k) = field /\ ~IsNull(mem[i].v)}
      bad(i) == \/ mem[i].v.t # "arr"
                \/ \E j \in DOMAIN mem[i].v.val :
                     mem[i].v.val[j].t # "str" /\ ~IsNull(mem[i].v.val[j])
      elems == mem[CHOOSE i \in hit : \A j \in hit : j <= i].v.val
  IN IF ~r.ok THEN [err |-> TRUE, val |-> <<>>]
     ELSE IF IsNull(r.v) THEN [err |-> FALSE, val |-> <<>>]
     ELSE IF r.v.t # "obj" THEN [err |-> TRUE, val |-> <<>>]
     ELSE IF \E i \in hit : bad(i) THEN [err |-> TRUE, val |-> <<>>]
     ELSE IF hit = {} THEN [err |-> FALSE, val |-> <<>>]
     ELSE [err |-> FALSE,
           val |-> [j \in DOMAIN elems |->
                      IF elems[j].t = "str" THEN elems[j].val ELSE <<>>]]

\* json.Unmarshal(rawJSON, &out) for that struct
UnmarshalListField(rawJSON, field) == DecodeListField(ParseJSON(rawJSON), field)

\* the same for a struct with one string field
DecodeStringField(r, field) ==
  LET mem == r.v.val
      hit == {i \in DOMAIN mem : ToLower(mem[i].k) = field /\ ~IsNull(mem[i].v)}
  IN IF ~r.ok THEN [err |-> TRUE, val |-> <<>>]
     ELSE IF IsNull(r.v) THEN [err |-> FALSE, val |-> <<>>]
     ELSE IF r.v.t # "obj" THEN [err |-> TRUE, val |-> <<>>]
     ELSE IF \E i \in hit : mem[i].v.t # "str" THEN [err |-> TRUE, val |-> <<>>]
     ELSE IF hit = {} THEN [err |-> FALSE, val |-> <<>>]
     ELSE [err |-> FALSE, val |-> mem[CHOOSE i \in hit : \A j \in hit : j <= i].v.val]

UnmarshalStringField(rawJSON, field) == DecodeStringField(ParseJSON(rawJSON), field)

\* the map[string]any of the parsed document r (a later duplicate of a key
\* replaces the earlier one); null gives the nil map
DecodeObject(r) ==
  LET mem == r.v.val
      keys == {mem[i].k : i \in DOMAIN mem}
      lastOf(k) == CHOOSE i \in DOMAIN mem :
                     mem[i].k = k /\ \A j \in DOMAIN mem : mem[j].k = k => j <= i
  IN IF r.ok /\ r.v.t = "obj"
       THEN [ok |-> TRUE, keys |-> keys, val |-> [k \in keys |-> mem[lastOf(k)].v]]
     ELSE IF r.ok /\ IsNull(r.v)
       THEN [ok |-> TRUE, keys |-> {}, val |-> <<>>]
     ELSE [ok |-> FALSE, keys |-> {}, val |-> <<>>]

parseJSONObject(rawJSON) == DecodeObject(ParseJSON(rawJSON))

anyToString(value) == IF value.t = "str" THEN TrimSpace(value.val) ELSE <<>>

RECURSIVE DropEmpty(_)
DropEmpty(list) ==
  IF list = <<>> THEN <<>>
  ELSE IF Head(list) = <<>> THEN DropEmpty(Tail(list))
  ELSE <<Head(list)>> \o DropEmpty(Tail(list))

anyToStringSlice(value) ==
  IF value.t # "arr" THEN <<>>
  ELSE DropEmpty([i \in DOMAIN value.val |-> anyToString(value.val[i])])

\* payload[key] for a key that may be absent (the nil interface)
Lookup(payload, key) == IF key \in payload.keys THEN payload.val[key] ELSE JNull

\* parseFirstStringArrayField from the decoded payload on: the set of values
\* the call can return.  The loop ranges over a Go map, whose iteration
\* order is not fixed: any key that equals the preferred one ignoring case
\* and holds a non-empty list can be the first one found.
FirstStringArray(payload, preferredKey) ==
  LET exact == anyToStringSlice(Lookup(payload, preferredKey))
      folded == {anyToStringSlice(payload.val[k]) :
                   k \in {x \in payload.keys : EqualFold(TrimSpace(x), preferredKey)}}
                \ {<<>>}
      only == {anyToStringSlice(payload.val[k]) : k \in payload.keys} \ {<<>>}
  IN IF ~payload.ok THEN {<<>>}
     ELSE IF Len(exact) > 0 THEN {exact}
     ELSE IF folded # {} THEN folded
     ELSE IF Cardinality(payload.keys) = 1 /\ only # {} THEN only
     ELSE {<<>>}

parseFirstStringArrayField(rawJSON, preferredKey) ==
  FirstStringArray(parseJSONObject(rawJSON), preferredKey)

\* parseFirstStringField from the decoded payload on
FirstString(payload, preferredKey) ==
  LET exact == anyToString(Lookup(payload, preferredKey))
      folded == {anyToString(payload.val[k]) :
                   k \in {x \in payload.keys : EqualFold(TrimSpace(x), preferredKey)}}
                \ {<<>>}
      only == {anyToString(payload.val[k]) : k \in payload.keys} \ {<<>>}
  IN IF ~payload.ok THEN {<<>>}
     ELSE IF exact # <<>> THEN {exact}
     ELSE IF folded # {} THEN folded
     ELSE IF Cardinality(payload.keys) = 1 /\ only # {} THEN only
     ELSE {<<>>}

parseFirstStringField(rawJSON, preferredKey) ==
  FirstString(parseJSONObject(rawJSON), preferredKey)

\* the loop of dedupeAndTrim; seen holds the lower-cased items kept so far
RECURSIVE DedupeLoop(_, _)
DedupeLoop(values, seen) ==
  IF values = <<>> THEN <<>>
  ELSE LET clean == TrimSpace(Head(values))
           key == ToLower(clean)
       IN IF clean = <<>> \/ key \in seen THEN DedupeLoop(Tail(values), seen)
          ELSE <<clean>> \o DedupeLoop(Tail(values), seen \cup {key})

\* dedupeAndTrim comparing the trimmed values themselves
RECURSIVE DedupeExactLoop(_, _)
DedupeExactLoop(values, seen) ==
  IF values = <<>> THEN <<>>
  ELSE LET clean == TrimSpace(Head(values))
       IN IF clean = <<>> \/ clean \in seen THEN DedupeExactLoop(Tail(values), seen)
          ELSE <<clean>> \o DedupeExactLoop(Tail(values), seen \cup {clean})

dedupeExact(values) == DedupeExactLoop(values, {})

dedupeAndTrim(values) == DedupeLoop(values, {})

\* limitListItems keeping one item more
limitListItemsOneMore(values, max) ==
  IF max <= 0 \/ Len(values) <= max THEN values ELSE SubSeq(values, 1, max + 1)

limitListItems(values, max) ==
  IF max <= 0 \/ Len(values) <= max THEN values ELSE SubSeq(values, 1, max)

\* strings.Split(s, "\n")
RECURSIVE SplitLines(_, _)
SplitLines(s, cur) ==
  IF s = <<>> THEN <<cur>>
  ELSE IF Head(s) = NL THEN <<cur>> \o SplitLines(Tail(s), <<>>)
  ELSE SplitLines(Tail(s), Append(cur, Head(s)))

RECURSIVE DropWhile(_, _)
DropWhile(s, set) ==
  IF s # <<>> /\ Head(s) \in set THEN DropWhile(Tail(s), set) ELSE s

\* leadingListMarkerPattern.ReplaceAllString(line, ""):
\*   ^\s*(?:[-*]+|\d+[\)\].:-]?)\s*
StripListMarker(line) ==
  LET l0 == DropWhile(line, Spaces)
      afterDigits == DropWhile(l0, Digits)
      afterMark == IF afterDigits # <<>> /\ Head(afterDigits) \in {")", "]", ".", ":", "-"}
                   THEN Tail(afterDigits) ELSE afterDigits
  IN IF l0 # <<>> /\ Head(l0) \in {"-", "*"}
       THEN DropWhile(DropWhile(l0, {"-", "*"}), Spaces)
     ELSE IF l0 # <<>> /\ Head(l0) \in Digits
       THEN DropWhile(afterMark, Spaces)
     ELSE line

\* json.Unmarshal into a []string, from the parsed document r on
DecodeStringList(r) ==
  IF ~r.ok THEN [err |-> TRUE, val |-> <<>>]
  ELSE IF IsNull(r.v) THEN [err |-> FALSE, val |-> <<>>]
  ELSE IF r.v.t # "arr" THEN [err |-> TRUE, val |-> <<>>]
  ELSE IF \E j \in DOMAIN r.v.val : r.v.val[j].t # "str" /\ ~IsNull(r.v.val[j])
    THEN [err |-> TRUE, val |-> <<>>]
  ELSE [err |-> FALSE,
        val |-> [j \in DOMAIN r.v.val |->
                   IF r.v.val[j].t = "str" THEN r.v.val[j].val ELSE <<>>]]

UnmarshalStringList(text) == DecodeStringList(ParseJSON(text))

\* parseLineList from the trimmed content on
LineList(trimmed, jsonList) ==
  LET lines == SplitLines(trimmed, <<>>)
      cleaned == [i \in DOMAIN lines |->
                    IF TrimSpace(lines[i]) = <<>> THEN <<>>
                    ELSE TrimSpace(StripListMarker(TrimSpace(lines[i])))]
  IN IF trimmed = <<>> THEN <<>>
     ELSE IF ~jsonList.err THEN dedupeAndTrim(jsonList.val)
     ELSE dedupeAndTrim(DropEmpty(cleaned))

TrimmedList(trimmed) == LineList(trimmed, UnmarshalStringList(trimmed))

parseLineList(content) == TrimmedList(TrimSpace(stripCodeFence(content)))

----------------------------------------------------------------------------
(* input texts: a sequence of runs of runes of one class                   *)
(*   lat: a non-space rune outside the Telugu block                        *)
(*   tel: a rune in U+0C00..U+0C7F        sp: white space                  *)

Run(c, n) == [c |-> c, n |-> n]

RECURSIVE RuneLen(_)
RuneLen(text) == IF text = <<>> THEN 0 ELSE Head(text).n + RuneLen(Tail(text))

RECURSIVE TrimLeftText(_)
TrimLeftText(text) ==
  IF text # <<>> /\ Head(text).c = "sp" THEN TrimLeftText(Tail(text)) ELSE text

RECURSIVE TrimRightText(_)
TrimRightText(text) ==
  IF text # <<>> /\ text[Len(text)].c = "sp"
  THEN TrimRightText(SubSeq(text, 1, Len(text) - 1)) ELSE text

\* strings.TrimSpace on an input text
TrimSpaceText(text) == TrimRightText(TrimLeftText(text))

\* string(runes[:k])
RECURSIVE RunePrefix(_, _)
RunePrefix(text, k) ==
  IF k <= 0 \/ text = <<>> THEN <<>>
  ELSE IF Head(text).n <= k
    THEN <<Head(text)>> \o RunePrefix(Tail(text), k - Head(text).n)
  ELSE <<Run(Head(text).c, k)>>

containsTeluguScript(value) == \E i \in DOMAIN value : value[i].c = "tel"

TeluguName == "U0C24U0C46U0C32U0C41U0C17U0C41"

\* normalizeOutputLanguage without the strings.ToLower
normalizeCaseSensitive(requested, inputText) ==
  LET clean == TrimSpace(requested) IN
  IF clean \in {<<"te">>, <<"telugu">>, <<TeluguName>>} THEN <<"Telugu">>
  ELSE IF clean \in {<<"en">>, <<"english">>} THEN <<"English">>
  ELSE IF containsTeluguScript(inputText) THEN <<"Telugu">>
  ELSE <<"English">>

normalizeOutputLanguage(requested, inputText) ==
  LET clean == ToLower(TrimSpace(requested)) IN
  IF clean \in {<<"te">>, <<"telugu">>, <<TeluguName>>} THEN <<"Telugu">>
  ELSE IF clean \in {<<"en">>, <<"english">>} THEN <<"English">>
  ELSE IF containsTeluguScript(inputText) THEN <<"Telugu">>
  ELSE <<"English">>

\* generation in the output language itself
generationInOutputLanguage(outputLanguage) == outputLanguage

stableGenerationLanguage(outputLanguage) ==
  IF EqualFold(TrimSpace(outputLanguage), <<"Telugu">>) THEN <<"English">>
  ELSE outputLanguage

maxRunes == 12000

compactLLMInput(raw) ==
  LET clean == TrimSpaceText(raw) IN
  IF clean = <<>> THEN clean
  ELSE IF RuneLen(clean) <= maxRunes THEN clean
  ELSE RunePrefix(clean, maxRunes)

minRunes == 900

\* int(float64(n) * 0.72): the product rounds to the exact value and the
\* conversion truncates, for every n up to 200000
Scale72(n) == (n * 72) \div 100

\* shrinkPromptInput without the floor of minRunes
shrinkWithoutFloor(text) ==
  LET runes == TrimSpaceText(text)
      n == RuneLen(runes)
  IN IF n <= minRunes THEN runes ELSE TrimSpaceText(RunePrefix(runes, Scale72(n)))

shrinkPromptInput(text) ==
  LET runes == TrimSpaceText(text)
      n == RuneLen(runes)
      l0 == Scale72(n)
      l1 == IF l0 < minRunes THEN minRunes ELSE l0
      nextLen == IF l1 >= n THEN n - 1 ELSE l1
  IN IF n <= minRunes THEN TrimSpaceText(text)
     ELSE IF nextLen <= 0 THEN TrimSpaceText(text)
     ELSE TrimSpaceText(RunePrefix(runes, nextLen))

----------------------------------------------------------------------------
(* retry predicates (openai_service.go)                                    *)

isRequestTooLargeMessage(message) ==
  LET lower == ToLower(TrimSpace(message)) IN
  IF lower = <<>> THEN FALSE
  ELSE \/ Contains(lower, "request too large")
       \/ Contains(lower, "reduce your message size")
       \/ (Contains(lower, "tokens per minute") /\ Contains(lower, "requested"))
       \/ Contains(lower, "context length")

\* err is what callCompletion returned: an apiRequestError or another error
isRequestTooLargeError(err) == err.kind = "api" /\ isRequestTooLargeMessage(err.msg)

\* shouldRetryWithoutJSONMode without the strings.ToLower
shouldRetryCaseSensitive(message) ==
  \/ Contains(message, "response_format")
  \/ Contains(message, "json_object")
  \/ Contains(message, "failed to generate json")
  \/ Contains(message, "failed_generation")

shouldRetryWithoutJSONMode(message) ==
  LET lower == ToLower(message) IN
  \/ Contains(lower, "response_format")
  \/ Contains(lower, "json_object")
  \/ Contains(lower, "failed to generate json")
  \/ Contains(lower, "failed_generation")

----------------------------------------------------------------------------
(* OpenAIService construction and settings                                 *)

defaultGroqModel == <<"llama-3.3-70b-versatile">>
defaultGroqBaseURL == <<"https://api.", "groq", ".com/openai/v1">>
defaultOpenAIModel == <<"gpt-4o-mini">>
defaultOpenAIURL == <<"https://api.openai.com/v1">>

RECURSIVE TrimRightSlash(_)
TrimRightSlash(s) ==
  IF s # <<>> /\ s[Len(s)] = "/" THEN TrimRightSlash(SubSeq(s, 1, Len(s) - 1)) ELSE s

firstNonEmptyEnv(e, k1, k2) ==
  IF TrimSpace(e[k1]) # <<>> THEN TrimSpace(e[k1]) ELSE TrimSpace(e[k2])

OrDefault(v, d) == IF v = <<>> THEN d ELSE v

NewOpenAIService(e) ==
  [apiKey |-> firstNonEmptyEnv(e, "GROQ_API_KEY", "OPENAI_API_KEY"),
   model |-> OrDefault(firstNonEmptyEnv(e, "GROQ_MODEL", "OPENAI_MODEL"), defaultGroqModel),
   baseURL |-> TrimRightSlash(OrDefault(firstNonEmptyEnv(e, "GROQ_BASE_URL", "OPENAI_BASE_URL"),
                                        defaultGroqBaseURL)),
   provider |-> <<"groq">>]

ApplySettings(s, e, provider, model) ==
  LET cleanProvider == ToLower(TrimSpace(provider))
      cleanModel == TrimSpace(model)
      m1 == IF cleanModel # <<>> THEN cleanModel ELSE s.model
  IN IF cleanProvider = <<"openai">>
     THEN [apiKey |-> TrimSpace(e["OPENAI_API_KEY"]),
           model |-> OrDefault(m1, defaultOpenAIModel),
           baseURL |-> TrimRightSlash(OrDefault(TrimSpace(e["OPENAI_BASE_URL"]), defaultOpenAIURL)),
           provider |-> <<"openai">>]
     ELSE [apiKey |-> firstNonEmptyEnv(e, "GROQ_API_KEY", "OPENAI_API_KEY"),
           model |-> OrDefault(m1, defaultGroqModel),
           baseURL |-> TrimRightSlash(OrDefault(firstNonEmptyEnv(e, "GROQ_BASE_URL", "OPENAI_BASE_URL"),
                                                defaultGroqBaseURL)),
           provider |-> <<"groq">>]

\* JSON-mode decided by the provider alone
shouldUseJSONModeByProvider(s) == ~EqualFold(s.provider, <<"groq">>)

shouldUseResponseFormatJSONMode(s) ==
  IF EqualFold(s.provider, <<"groq">>) THEN FALSE
  ELSE IF Contains(ToLower(TrimSpace(s.baseURL)), "groq") THEN FALSE
  ELSE TRUE

----------------------------------------------------------------------------
(* errors, requests and the invocation's configuration                     *)

NoErr == [kind |-> "none", status |-> 0, msg |-> <<>>]
Err(text) == [kind |-> "err", status |-> 0, msg |-> <<text>>]
ApiErr(status, message) == [kind |-> "api", status |-> status, msg |-> message]
Content(text) == [kind |-> "ok", status |-> 200, msg |-> text]

ErrKeyMissing == Err("GROQ_API_KEY (or OPENAI_API_KEY) is missing")
ErrInvalidJSON == Err("groq did not return valid json")

NoReq == [step |-> "none"]

JSONSteps == {"extract-facts", "generate-gaps", "generate-article"}

NoInput == [text |-> <<>>, url |-> <<>>, language |-> <<>>, category |-> <<>>]

EmptyInv ==
  [input |-> NoInput, rawText |-> <<>>, sourceURL |-> <<>>,
   outputLanguage |-> <<>>, generationLanguage |-> <<>>, llmInput |-> <<>>,
   facts |-> <<>>, gaps |-> <<>>, articleText |-> <<>>,
   trItems |-> <<>>, trLines |-> 0, trIdx |-> 0, trAcc |-> <<>>, trFor |-> "none",
   err |-> NoErr, ok |-> FALSE, articleID |-> 0]

EmptyCJ ==
  [pos |-> "none", useJSONMode |-> FALSE, attempt |-> 0, currentInput |-> <<>>,
   lastErr |-> NoErr]

\* no callJSONCompletion has returned
NoCJRet ==
  [step |-> "none", call |-> 0, pos |-> "none", from |-> NoErr, err |-> NoErr, json |-> <<>>]

NoRows == [topics |-> <<>>, articles |-> <<>>, facts |-> <<>>, gaps |-> <<>>]

\* what the current invocation has done so far.  calls, rets: the stages
\* RunPhaseOne called and what they returned; resp: the result of the last
\* request; cjret: the last return of callJSONCompletion (of which step,
\* the how-manieth call of the stage, at which position, from which result);
\* nreq, njson, nerr, nmal: the requests of the current callJSONCompletion,
\* those with JSON-mode, and its retries after an error and after malformed
\* content; cjcalls, trreq: the stage's calls of callJSONCompletion and its
\* translation requests; db0: the rows in the database when the invocation
\* began; fetched: what the GET of the source URL ended in
EmptyHist ==
  [calls |-> <<>>, rets |-> <<>>, resp |-> NoErr, cjret |-> NoCJRet,
   nreq |-> 0, njson |-> 0, nerr |-> 0, nmal |-> 0, cjcalls |-> 0, trreq |-> 0,
   db0 |-> NoRows, fetched |-> [kind |-> "none", status |-> 0, text |-> <<>>]]

\* the part of the state one step of the invocation rewrites
K == [pc |-> pc, inv |-> inv, req |-> req, cj |-> cj, hist |-> hist]

SetK(k) ==
  /\ pc' = k.pc
  /\ inv' = k.inv
  /\ req' = k.req
  /\ cj' = k.cj
  /\ hist' = k.hist

Call(fn, a, b, lang) == [fn |-> fn, a |-> a, b |-> b, lang |-> lang]
Ret(fn, isOk, val) == [fn |-> fn, ok |-> isOk, val |-> val]

Called(k, c) ==
  [k EXCEPT !.hist.calls = Append(@, c), !.hist.cjcalls = 0, !.hist.trreq = 0,
            !.hist.nreq = 0, !.hist.njson = 0, !.hist.nerr = 0, !.hist.nmal = 0]
Returned(k, r) == [k EXCEPT !.hist.rets = Append(@, r)]

\* the call of a stage that is no JSON stage: the record of the last request
\* and of the last JSON completion ends
CalledPlain(k, c) == Called([k EXCEPT !.hist.resp = NoErr, !.hist.cjret = NoCJRet], c)

\* RunPhaseOne returns the error e
ReturnError(k, e) ==
  [k EXCEPT !.pc = "done", !.req = NoReq, !.cj = EmptyCJ, !.inv.err = e, !.inv.ok = FALSE]

\* a stage of RunPhaseOne returned the error e
StageFailed(k, fn, e) == ReturnError(Returned(k, Ret(fn, FALSE, <<>>)), e)

\* callCompletion: the request leaves with the service's current settings
SendRequest(k, s, step, useJSONFormat, prompt) ==
  [k EXCEPT !.pc = "http",
            !.req = [step |-> step, json |-> useJSONFormat, prompt |-> prompt,
                     model |-> s.model, baseURL |-> s.baseURL, apiKey |-> s.apiKey],
            !.hist.nreq = @ + 1,
            !.hist.njson = @ + (IF useJSONFormat THEN 1 ELSE 0)]

\* callJSONCompletion up to its first request
StartJSONCompletion(k, s, step, prompt) ==
  LET useJSONMode == shouldUseResponseFormatJSONMode(s)
      k1 == [k EXCEPT !.cj.pos = "first", !.cj.useJSONMode = useJSONMode,
                      !.hist.nreq = 0, !.hist.njson = 0, !.hist.nerr = 0, !.hist.nmal = 0,
                      !.hist.cjcalls = @ + 1]
  IN SendRequest(k1, s, step, useJSONMode, prompt)

\* callCompletion from the HTTP response on: the content is trimmed
callCompletion(response) ==
  IF response.kind = "ok" THEN Content(TrimSpace(response.msg)) ELSE response

\* callJSONCompletion giving up at the first content that is no JSON
callJSONCompletionNoSecondTry(pos, useJSONMode, out) ==
  IF out.kind # "ok"
  THEN IF pos = "first" /\ useJSONMode /\ out.kind = "api"
          /\ shouldRetryWithoutJSONMode(out.msg)
       THEN [do |-> "retry", pos |-> "errRetry", err |-> NoErr, json |-> <<>>]
       ELSE [do |-> "return", pos |-> pos, err |-> out, json |-> <<>>]
  ELSE IF normalizeJSONContent(out.msg).ok
    THEN [do |-> "return", pos |-> pos, err |-> NoErr,
          json |-> normalizeJSONContent(out.msg).json]
  ELSE [do |-> "return", pos |-> pos, err |-> ErrInvalidJSON, json |-> <<>>]

\* callJSONCompletion from the return of a request on: what it does with the
\* request's result `out` at position pos (first, errRetry, jsonRetry):
\* send another request (retry) or return
callJSONCompletion(pos, useJSONMode, out) ==
  LET n == normalizeJSONContent(out.msg) IN
  IF out.kind # "ok"
  THEN IF pos = "first" /\ useJSONMode /\ out.kind = "api"
          /\ shouldRetryWithoutJSONMode(out.msg)
       THEN [do |-> "retry", pos |-> "errRetry", err |-> NoErr, json |-> <<>>]
       ELSE [do |-> "return", pos |-> pos, err |-> out, json |-> <<>>]
  ELSE IF n.ok THEN [do |-> "return", pos |-> pos, err |-> NoErr, json |-> n.json]
  ELSE IF pos \in {"first", "errRetry"}
       THEN [do |-> "retry", pos |-> "jsonRetry", err |-> NoErr, json |-> <<>>]
  ELSE [do |-> "return", pos |-> pos, err |-> ErrInvalidJSON, json |-> <<>>]

\* the retry request of callJSONCompletion: same step and prompt, JSON-mode off
RetryRequest(k, s, pos) ==
  SendRequest([k EXCEPT !.cj.pos = pos,
                        !.hist.nerr = @ + (IF pos = "errRetry" THEN 1 ELSE 0),
                        !.hist.nmal = @ + (IF pos = "jsonRetry" THEN 1 ELSE 0)],
              s, k.req.step, FALSE, k.req.prompt)

----------------------------------------------------------------------------
(* callCompletion from the HTTP response on: status and body               *)

\* v[key] of a decoded JSON object v (nil when absent): the last member of
\* that name
Member(mem, key) ==
  IF \E i \in DOMAIN mem : mem[i].k = key
  THEN mem[CHOOSE i \in DOMAIN mem :
             mem[i].k = key /\ \A j \in DOMAIN mem : mem[j].k = key => j <= i].v
  ELSE JNull

NonBlankString(v) == v.t = "str" /\ TrimSpace(v.val) # <<>>

\* extractErrorMessage from the decoded payload on
ErrorMessageOf(payload, body) ==
  IF ~payload.ok THEN body
  ELSE IF Lookup(payload, <<"error">>).t = "obj"
          /\ NonBlankString(Member(Lookup(payload, <<"error">>).val, <<"message">>))
    THEN Member(Lookup(payload, <<"error">>).val, <<"message">>).val
  ELSE IF NonBlankString(Lookup(payload, <<"error">>))
    THEN Lookup(payload, <<"error">>).val
  ELSE IF NonBlankString(Lookup(payload, <<"message">>))
    THEN Lookup(payload, <<"message">>).val
  ELSE body

\* extractErrorMessage looking at the top-level message first
extractTopLevelMessageFirst(body) ==
  IF NonBlankString(Lookup(parseJSONObject(body), <<"message">>))
  THEN Lookup(parseJSONObject(body), <<"message">>).val
  ELSE ErrorMessageOf(parseJSONObject(body), body)

extractErrorMessage(body) == ErrorMessageOf(parseJSONObject(body), body)

\* the member of a struct field: the last non-null member whose name equals
\* the field ignoring case (nil when there is none)
StructField(mem, field) ==
  IF \E i \in DOMAIN mem : ToLower(mem[i].k) = field /\ ~IsNull(mem[i].v)
  THEN mem[CHOOSE i \in DOMAIN mem :
             /\ ToLower(mem[i].k) = field /\ ~IsNull(mem[i].v)
             /\ \A j \in DOMAIN mem :
                  (ToLower(mem[j].k) = field /\ ~IsNull(mem[j].v)) => j <= i].v
  ELSE JNull

\* one element of choices: its message.content, or a type error
DecodeChoice(c) ==
  IF IsNull(c) THEN [err |-> FALSE, content |-> <<>>]
  ELSE IF c.t # "obj" THEN [err |-> TRUE, content |-> <<>>]
  ELSE IF IsNull(StructField(c.val, <<"message">>)) THEN [err |-> FALSE, content |-> <<>>]
  ELSE IF StructField(c.val, <<"message">>).t # "obj" THEN [err |-> TRUE, content |-> <<>>]
  ELSE IF \E f \in {<<"role">>, <<"content">>} :
            StructField(StructField(c.val, <<"message">>).val, f).t \notin {"str", "lit"}
    THEN [err |-> TRUE, content |-> <<>>]
  ELSE IF \E f \in {<<"role">>, <<"content">>} :
            /\ StructField(StructField(c.val, <<"message">>).val, f).t = "lit"
            /\ ~IsNull(StructField(StructField(c.val, <<"message">>).val, f))
    THEN [err |-> TRUE, content |-> <<>>]
  ELSE IF IsNull(StructField(StructField(c.val, <<"message">>).val, <<"content">>))
    THEN [err |-> FALSE, content |-> <<>>]
  ELSE [err |-> FALSE,
        content |-> StructField(StructField(c.val, <<"message">>).val, <<"content">>).val]

\* json.Unmarshal(body, &out) for chatCompletionResponse, from the parsed
\* document r on: the contents of the choices, or an error
DecodeCompletion(r) ==
  IF ~r.ok THEN [err |-> TRUE, choices |-> <<>>]
  ELSE IF IsNull(r.v) THEN [err |-> FALSE, choices |-> <<>>]
  ELSE IF r.v.t # "obj" THEN [err |-> TRUE, choices |-> <<>>]
  ELSE IF IsNull(StructField(r.v.val, <<"choices">>)) THEN [err |-> FALSE, choices |-> <<>>]
  ELSE IF StructField(r.v.val, <<"choices">>).t # "arr" THEN [err |-> TRUE, choices |-> <<>>]
  ELSE IF \E i \in DOMAIN StructField(r.v.val, <<"choices">>).val :
            DecodeChoice(StructField(r.v.val, <<"choices">>).val[i]).err
    THEN [err |-> TRUE, choices |-> <<>>]
  ELSE [err |-> FALSE,
        choices |-> [i \in DOMAIN StructField(r.v.val, <<"choices">>).val |->
                       DecodeChoice(StructField(r.v.val, <<"choices">>).val[i]).content]]

\* callCompletion from the decoded body of a response below 400 on
CompletionContent(out) ==
  IF out.err THEN Err("parse groq response body")
  ELSE IF Len(out.choices) = 0 THEN Err("groq returned no choices")
  ELSE Content(TrimSpace(out.choices[1]))

\* callCompletion from the response read (status, body) on
callCompletionRead(status, body) ==
  IF status >= 400 THEN ApiErr(status, extractErrorMessage(body))
  ELSE CompletionContent(DecodeCompletion(ParseJSON(body)))

----------------------------------------------------------------------------
(* the stages of RunPhaseOne, last stage first.  Each operator takes the   *)
(* configuration k and the service s and gives the configuration in which  *)
(* the code next waits (for an HTTP response, for the database) or has     *)
(* returned; the ...Return operators of the JSON stages give the set of    *)
(* such configurations, since the fallback field scan can return any of    *)
(* several values.                                                         *)

Prompt(text, facts, gaps, language) ==
  [text |-> text, facts |-> facts, gaps |-> gaps, language |-> language]

\* savePhaseOne up to BeginTx
savePhaseOne(k) ==
  [CalledPlain(k, Call("savePhaseOne", k.inv.facts, k.inv.gaps, k.inv.articleText))
     EXCEPT !.pc = "begin", !.req = NoReq, !.cj = EmptyCJ]

SendTranslate(k, s, step, prompt) ==
  SendRequest([k EXCEPT !.hist.trreq = @ + 1], s, step, FALSE, prompt)

\* TranslateText without the check of the API key
TranslateTextStartAnyKey(s, text, language) ==
  LET cleanText == TrimSpace(text)
      cleanLanguage == TrimSpace(language)
  IN IF cleanText = <<>> THEN [do |-> "fail", err |-> Err("text is empty"), val |-> <<>>]
     ELSE IF EqualFold(cleanLanguage, <<"English">>)
       THEN [do |-> "return", err |-> NoErr, val |-> cleanText]
     ELSE [do |-> "request", err |-> NoErr,
           val |-> Prompt(cleanText, <<>>, <<>>, cleanLanguage)]

\* TranslateText up to its request: an error, the text itself, or a request
TranslateTextStart(s, text, language) ==
  LET cleanText == TrimSpace(text)
      cleanLanguage == TrimSpace(language)
  IN IF s.apiKey = <<>> THEN [do |-> "fail", err |-> ErrKeyMissing, val |-> <<>>]
     ELSE IF cleanText = <<>> THEN [do |-> "fail", err |-> Err("text is empty"), val |-> <<>>]
     ELSE IF EqualFold(cleanLanguage, <<"English">>)
       THEN [do |-> "return", err |-> NoErr, val |-> cleanText]
     ELSE [do |-> "request", err |-> NoErr,
           val |-> Prompt(cleanText, <<>>, <<>>, cleanLanguage)]

\* TranslateText(articleText) returns text to RunPhaseOne
ArticleTranslated(k, text) ==
  [Returned([k EXCEPT !.inv.articleText = text], Ret("TranslateText", TRUE, text))
     EXCEPT !.pc = "TranslateText returned"]

\* RunPhaseOne's call of TranslateText(articleText, outputLanguage)
TranslateArticle(k, s) ==
  LET k1 == CalledPlain([k EXCEPT !.inv.trFor = "article"],
                   Call("TranslateText", k.inv.articleText, <<>>, k.inv.outputLanguage))
      t == TranslateTextStart(s, k.inv.articleText, k.inv.outputLanguage)
  IN IF t.do = "fail" THEN StageFailed(k1, "TranslateText", t.err)
     ELSE IF t.do = "return" THEN ArticleTranslated(k1, t.val)
     ELSE SendTranslate(k1, s, "translate-article", t.val)

\* TranslateList returns `result` to RunPhaseOne for the list k.inv.trFor
TranslateListDone(k, result) ==
  LET k1 == IF k.inv.trFor = "facts" THEN [k EXCEPT !.inv.facts = result]
            ELSE [k EXCEPT !.inv.gaps = result]
  IN [Returned(k1, Ret("TranslateList", TRUE, result)) EXCEPT !.pc = "TranslateList returned"]

\* the loop of TranslateList that translates the items one by one, from
\* item i on
RECURSIVE TranslateItems(_, _, _)
TranslateItems(k, s, i) ==
  IF i > Len(k.inv.trItems) THEN TranslateListDone(k, k.inv.trAcc)
  ELSE LET t == TranslateTextStart(s, k.inv.trItems[i], k.inv.outputLanguage) IN
    IF t.do = "fail" THEN StageFailed(k, "TranslateList", t.err)
    ELSE IF t.do = "return"
      THEN TranslateItems([k EXCEPT !.inv.trAcc = Append(@, t.val)], s, i + 1)
    ELSE SendTranslate([k EXCEPT !.inv.trIdx = i], s, "translate-article", t.val)

RECURSIVE CountNonBlank(_)
CountNonBlank(items) ==
  IF items = <<>> THEN 0
  ELSE (IF TrimSpace(Head(items)) = <<>> THEN 0 ELSE 1) + CountNonBlank(Tail(items))

\* TranslateList(items, outputLanguage) up to its request
TranslateListStart(k, s, items, for) ==
  LET language == k.inv.outputLanguage
      cleanLanguage == TrimSpace(language)
      k1 == CalledPlain([k EXCEPT !.inv.trFor = for, !.inv.trItems = items, !.inv.trIdx = 0,
                                  !.inv.trAcc = <<>>, !.inv.trLines = CountNonBlank(items)],
                        Call("TranslateList", items, <<>>, language))
  IN IF s.apiKey = <<>> THEN StageFailed(k1, "TranslateList", ErrKeyMissing)
     ELSE IF EqualFold(cleanLanguage, <<"English">>) \/ Len(items) = 0
       THEN TranslateListDone(k1, dedupeAndTrim(items))
     ELSE IF CountNonBlank(items) = 0
       THEN StageFailed(k1, "TranslateList", Err("no items to translate"))
     ELSE SendTranslate(k1, s, "translate-list", Prompt(<<>>, items, <<>>, cleanLanguage))

\* TranslateList taking the parsed list whatever its length
TranslateListParsedAnyCount(k, s, out, translated) ==
  IF out.kind # "ok" THEN StageFailed(k, "TranslateList", out)
  ELSE IF Len(translated) = 0
    THEN StageFailed(k, "TranslateList", Err("translation returned empty list"))
  ELSE TranslateListDone(k, translated)

\* TranslateList from the response to its request on
TranslateListParsed(k, s, out, translated) ==
  IF out.kind # "ok" THEN StageFailed(k, "TranslateList", out)
  ELSE IF Len(translated) = 0
    THEN StageFailed(k, "TranslateList", Err("translation returned empty list"))
  ELSE IF Len(translated) # k.inv.trLines THEN TranslateItems(k, s, 1)
  ELSE TranslateListDone(k, translated)

TranslateListReturn(k, s, out) == TranslateListParsed(k, s, out, parseLineList(out.msg))

\* TranslateText from the response to its request on
TranslateTextReturn(k, s, out) ==
  LET translated == TrimSpace(stripCodeFence(out.msg))
      fn == IF k.inv.trFor = "article" THEN "TranslateText" ELSE "TranslateList"
  IN IF out.kind # "ok" THEN StageFailed(k, fn, out)
     ELSE IF translated = <<>>
       THEN StageFailed(k, fn, Err("translation returned empty text"))
     ELSE IF k.inv.trFor = "article" THEN ArticleTranslated(k, translated)
     ELSE TranslateItems([k EXCEPT !.inv.trAcc = Append(@, translated)], s, k.inv.trIdx + 1)

\* GenerateStructuredArticle returns article to RunPhaseOne
ArticleGenerated(k, article) ==
  [Returned([k EXCEPT !.inv.articleText = article],
            Ret("GenerateStructuredArticle", TRUE, article))
     EXCEPT !.pc = "GenerateStructuredArticle returned"]

\* GenerateStructuredArticle up to its first request
GenerateStructuredArticle(k, s, facts, gaps, language) ==
  LET k1 == Called(k, Call("GenerateStructuredArticle", facts, gaps, language)) IN
  IF s.apiKey = <<>> THEN StageFailed(k1, "GenerateStructuredArticle", ErrKeyMissing)
  ELSE IF Len(facts) = 0
    THEN StageFailed(k1, "GenerateStructuredArticle",
                     Err("facts are required to generate article"))
  ELSE StartJSONCompletion(k1, s, "generate-article", Prompt(<<>>, facts, gaps, language))

\* GenerateStructuredArticle from the return r of callJSONCompletion on
GenerateStructuredArticleReturn(k, s, r) ==
  LET out == UnmarshalStringField(r.json, <<"article">>)
      first == TrimSpace(out.val)
      cands == IF first = <<>>
               THEN {TrimSpace(a) : a \in parseFirstStringField(r.json, <<"article">>)}
               ELSE {first}
  IN IF r.err # NoErr THEN {StageFailed(k, "GenerateStructuredArticle", r.err)}
     ELSE IF out.err
       THEN {StageFailed(k, "GenerateStructuredArticle", Err("parse article response"))}
     ELSE {IF article = <<>>
           THEN StageFailed(k, "GenerateStructuredArticle", Err("groq returned empty article"))
           ELSE ArticleGenerated(k, article) : article \in cands}

\* GenerateGapQuestions returns gaps to RunPhaseOne
GapsGenerated(k, gaps) ==
  [Returned([k EXCEPT !.inv.gaps = gaps], Ret("GenerateGapQuestions", TRUE, gaps))
     EXCEPT !.pc = "GenerateGapQuestions returned"]

\* GenerateGapQuestions up to its first request
GenerateGapQuestions(k, s, text, facts, language) ==
  LET k1 == Called(k, Call("GenerateGapQuestions", facts, <<>>, language)) IN
  IF s.apiKey = <<>> THEN StageFailed(k1, "GenerateGapQuestions", ErrKeyMissing)
  ELSE IF Len(facts) = 0
    THEN StageFailed(k1, "GenerateGapQuestions", Err("facts are required to generate gaps"))
  ELSE StartJSONCompletion(k1, s, "generate-gaps", Prompt(text, facts, <<>>, language))

\* GenerateGapQuestions from the return r of callJSONCompletion on
GenerateGapQuestionsReturn(k, s, r) ==
  LET out == UnmarshalListField(r.json, <<"gaps">>)
      cands == IF Len(out.val) = 0 THEN parseFirstStringArrayField(r.json, <<"gaps">>)
               ELSE {out.val}
  IN IF r.err # NoErr THEN {StageFailed(k, "GenerateGapQuestions", r.err)}
     ELSE IF out.err
       THEN {StageFailed(k, "GenerateGapQuestions", Err("parse gaps response"))}
     ELSE {IF dedupeAndTrim(gaps) = <<>>
           THEN StageFailed(k, "GenerateGapQuestions", Err("groq returned empty gaps"))
           ELSE GapsGenerated(k, dedupeAndTrim(gaps)) : gaps \in cands}

\* ExtractFacts returns facts to RunPhaseOne
FactsExtracted(k, facts) ==
  [Returned([k EXCEPT !.inv.facts = facts], Ret("ExtractFacts", TRUE, facts))
     EXCEPT !.pc = "ExtractFacts returned"]

\* one attempt more
maxAttemptsOneMore == 4 + 1

maxAttempts == 4

\* ExtractFacts up to its first request
ExtractFacts(k, s, text, language) ==
  LET clean == TrimSpaceText(text)
      k1 == Called(k, Call("ExtractFacts", text, <<>>, language))
  IN IF clean = <<>> THEN StageFailed(k1, "ExtractFacts", Err("input text is empty"))
     ELSE IF s.apiKey = <<>> THEN StageFailed(k1, "ExtractFacts", ErrKeyMissing)
     ELSE StartJSONCompletion(
            [k1 EXCEPT !.cj.attempt = 1, !.cj.currentInput = clean, !.cj.lastErr = NoErr],
            s, "extract-facts", Prompt(clean, <<>>, <<>>, language))

\* ExtractFacts from the return r of callJSONCompletion on: the rest of the
\* loop body of the current attempt and, after a request-too-large error,
\* the next attempt's request
ExtractFactsReturn(k, s, r) ==
  LET out == UnmarshalListField(r.json, <<"facts">>)
      cands == IF Len(out.val) = 0 THEN parseFirstStringArrayField(r.json, <<"facts">>)
               ELSE {out.val}
      shorterInput == shrinkPromptInput(k.cj.currentInput)
  IN IF r.err = NoErr
     THEN IF out.err THEN {StageFailed(k, "ExtractFacts", Err("parse facts response"))}
          ELSE {IF dedupeAndTrim(facts) = <<>>
                THEN StageFailed(k, "ExtractFacts", Err("groq returned empty facts"))
                ELSE FactsExtracted(k, dedupeAndTrim(facts)) : facts \in cands}
     ELSE IF ~isRequestTooLargeError(r.err) THEN {StageFailed(k, "ExtractFacts", r.err)}
     ELSE IF shorterInput = k.cj.currentInput THEN {StageFailed(k, "ExtractFacts", r.err)}
     ELSE IF k.cj.attempt + 1 <= maxAttempts
       THEN {StartJSONCompletion(
               [k EXCEPT !.cj.attempt = @ + 1, !.cj.currentInput = shorterInput,
                         !.cj.lastErr = r.err],
               s, "extract-facts",
               Prompt(shorterInput, <<>>, <<>>, k.req.prompt.language))}
     ELSE {StageFailed([k EXCEPT !.cj.lastErr = r.err], "ExtractFacts", r.err)}

\* "- " + strings.Join(dedupeAndTrim(items), "\n- ")
RECURSIVE JoinBlock(_)
JoinBlock(items) ==
  IF items = <<>> THEN <<>>
  ELSE IF Len(items) = 1 THEN Head(items)
  ELSE Head(items) \o <<NL, "-", SP>> \o JoinBlock(Tail(items))

Block(items) == <<"-", SP>> \o JoinBlock(dedupeAndTrim(items))

\* a list stage that is not part of RunPhaseOne returns `options`
OptionsGenerated(k, fn, options) ==
  [Returned(k, Ret(fn, TRUE, options)) EXCEPT !.pc = "returned"]

\* GenerateHeadlineOptions up to its first request
GenerateHeadlineOptions(k, s, facts, article, language) ==
  LET k1 == Called(k, Call("GenerateHeadlineOptions", facts, article, language)) IN
  IF s.apiKey = <<>> THEN StageFailed(k1, "GenerateHeadlineOptions", ErrKeyMissing)
  ELSE IF TrimSpace(Block(facts)) = <<"-">>
    THEN StageFailed(k1, "GenerateHeadlineOptions",
                     Err("facts are required to generate headlines"))
  ELSE StartJSONCompletion(k1, s, "generate-headlines",
                           Prompt(article, Block(facts), <<>>, language))

\* GenerateHeadlineOptions from the return r of callJSONCompletion on
GenerateHeadlineOptionsReturn(k, s, r) ==
  LET out == UnmarshalListField(r.json, <<"headlines">>)
      cands == IF Len(out.val) = 0 THEN parseFirstStringArrayField(r.json, <<"headlines">>)
               ELSE {out.val}
  IN IF r.err # NoErr THEN {StageFailed(k, "GenerateHeadlineOptions", r.err)}
     ELSE IF out.err
       THEN {StageFailed(k, "GenerateHeadlineOptions", Err("parse headlines response"))}
     ELSE {IF dedupeAndTrim(headlines) = <<>>
           THEN StageFailed(k, "GenerateHeadlineOptions", Err("groq returned empty headlines"))
           ELSE OptionsGenerated(k, "GenerateHeadlineOptions",
                                 limitListItems(dedupeAndTrim(headlines), 5))
             : headlines \in cands}

\* GenerateStraplineOptions up to its first request
GenerateStraplineOptions(k, s, facts, gaps, article, language) ==
  LET k1 == Called(k, Call("GenerateStraplineOptions", facts, gaps, language))
      gapsBlock == IF TrimSpace(Block(gaps)) = <<"-">> THEN <<"-", SP, "None">> ELSE Block(gaps)
  IN IF s.apiKey = <<>> THEN StageFailed(k1, "GenerateStraplineOptions", ErrKeyMissing)
     ELSE IF TrimSpace(Block(facts)) = <<"-">>
       THEN StageFailed(k1, "GenerateStraplineOptions",
                        Err("facts are required to generate straplines"))
     ELSE StartJSONCompletion(k1, s, "generate-straplines",
                              Prompt(article, Block(facts), gapsBlock, language))

\* GenerateStraplineOptions from the return r of callJSONCompletion on
GenerateStraplineOptionsReturn(k, s, r) ==
  LET out == UnmarshalListField(r.json, <<"straplines">>)
      cands == IF Len(out.val) = 0 THEN parseFirstStringArrayField(r.json, <<"straplines">>)
               ELSE {out.val}
  IN IF r.err # NoErr THEN {StageFailed(k, "GenerateStraplineOptions", r.err)}
     ELSE IF out.err
       THEN {StageFailed(k, "GenerateStraplineOptions", Err("parse straplines response"))}
     ELSE {IF dedupeAndTrim(straplines) = <<>>
           THEN StageFailed(k, "GenerateStraplineOptions", Err("groq returned empty straplines"))
           ELSE OptionsGenerated(k, "GenerateStraplineOptions",
                                 limitListItems(dedupeAndTrim(straplines), 4))
             : straplines \in cands}

\* RunPhaseOne from the return of a stage on: the calls that follow, up to
\* the next request, to BeginTx, or to its return
RECURSIVE RunPhaseOneFrom(_, _)
\* RunPhaseOne without its call of GenerateGapQuestions
RunPhaseOneSkippingGaps(k, s) ==
  IF k.pc = "ExtractFacts returned"
  THEN RunPhaseOneFrom(
         GenerateStructuredArticle(k, s, k.inv.facts, k.inv.gaps, k.inv.generationLanguage), s)
  ELSE k

RunPhaseOneFrom(k, s) ==
  CASE k.pc = "ExtractFacts returned" ->
         RunPhaseOneFrom(
           GenerateGapQuestions(k, s, k.inv.llmInput, k.inv.facts, k.inv.generationLanguage), s)
    [] k.pc = "GenerateGapQuestions returned" ->
         RunPhaseOneFrom(
           GenerateStructuredArticle(k, s, k.inv.facts, k.inv.gaps, k.inv.generationLanguage), s)
    [] k.pc = "GenerateStructuredArticle returned" ->
         IF k.inv.outputLanguage # k.inv.generationLanguage
         THEN RunPhaseOneFrom(TranslateListStart(k, s, k.inv.facts, "facts"), s)
         ELSE savePhaseOne(k)
    [] k.pc = "TranslateList returned" ->
         IF k.inv.trFor = "facts"
         THEN RunPhaseOneFrom(TranslateListStart(k, s, k.inv.gaps, "gaps"), s)
         ELSE RunPhaseOneFrom(TranslateArticle(k, s), s)
    [] k.pc = "TranslateText returned" -> savePhaseOne(k)
    [] OTHER -> k

\* RunPhaseOne from the resolved input on, up to ExtractFacts' first request
PhaseOneResolved(k, s, rawText, sourceURL) ==
  LET outputLanguage == normalizeOutputLanguage(k.inv.input.language, rawText)
      generationLanguage == stableGenerationLanguage(outputLanguage)
      llmInput == compactLLMInput(rawText)
      k1 == [k EXCEPT !.inv.rawText = rawText, !.inv.sourceURL = sourceURL,
                      !.inv.outputLanguage = outputLanguage,
                      !.inv.generationLanguage = generationLanguage,
                      !.inv.llmInput = llmInput]
  IN ExtractFacts(k1, s, llmInput, generationLanguage)

\* url.ParseRequestURI accepts an absolute URI or an absolute path
IsRequestURI(u) == u # <<>> /\ Head(u) \in {"https://", "http://", "/"}

\* resolveInput trying the URL before the text
resolveInputURLFirst(k, s) ==
  LET text == TrimSpaceText(k.inv.input.text)
      sourceURL == TrimSpace(k.inv.input.url)
  IN IF sourceURL # <<>> /\ IsRequestURI(sourceURL)
       THEN [k EXCEPT !.pc = "fetch", !.inv.sourceURL = sourceURL]
     ELSE IF text # <<>> THEN PhaseOneResolved(k, s, text, sourceURL)
     ELSE ReturnError(k, Err("provide either text or url"))

\* resolveInput up to the fetch of the URL (or to its return)
resolveInput(k, s) ==
  LET text == TrimSpaceText(k.inv.input.text)
      sourceURL == TrimSpace(k.inv.input.url)
  IN IF text # <<>> THEN PhaseOneResolved(k, s, text, sourceURL)
     ELSE IF sourceURL = <<>> THEN ReturnError(k, Err("provide either text or url"))
     ELSE IF ~IsRequestURI(sourceURL) THEN ReturnError(k, Err("url is invalid"))
     ELSE [k EXCEPT !.pc = "fetch", !.inv.sourceURL = sourceURL]

\* resolveInput from the return of fetchURLText on
resolveInputFetched(k, s, fetched) ==
  IF ~fetched.ok THEN ReturnError(k, Err("failed to read url content"))
  ELSE IF TrimSpaceText(fetched.text) = <<>>
    THEN ReturnError(k, Err("could not extract readable text from url"))
  ELSE PhaseOneResolved(k, s, fetched.text, k.inv.sourceURL)

----------------------------------------------------------------------------
(* the database: committed rows, and savePhaseOne's transaction            *)

NoTx == [open |-> FALSE, topics |-> <<>>, articles |-> <<>>, facts |-> <<>>,
         gaps |-> <<>>, topicID |-> 0, articleID |-> 0]

OpenTx == [NoTx EXCEPT !.open = TRUE]

\* the topics ensureSchema inserts
SeedTopics ==
  << [id |-> 1, name |-> <<"Finance">>], [id |-> 2, name |-> <<"Politics">>],
     [id |-> 3, name |-> <<"Technology">>], [id |-> 4, name |-> <<"Science">>],
     [id |-> 5, name |-> <<"Sports">>], [id |-> 6, name |-> <<"Other">>] >>

\* the app_settings row ensureSchema inserts, joined with its provider and model
SeedSettings == [provider_key |-> <<"groq">>, model_key |-> <<"llama-3.3-70b-versatile">>]

SeededDB ==
  [articles |-> <<>>, facts |-> <<>>, gaps |-> <<>>, topics |-> SeedTopics,
   settings |-> SeedSettings,
   seq |-> [articles |-> 0, facts |-> 0, gaps |-> 0, topics |-> 6]]

\* the rows a query of the database sees
Rows(d) == [topics |-> d.topics, articles |-> d.articles, facts |-> d.facts, gaps |-> d.gaps]

ArticleRow(id, sourceURL, rawText, articleText, topicID) ==
  [id |-> id, source_url |-> sourceURL, raw_text |-> rawText, status |-> "pending",
   selected_format |-> "timeline", article_text |-> articleText, topic_id |-> topicID]

\* insertFacts binding the row's own id as its article
FactRowOwnID(id, articleID, text) ==
  [id |-> id, article_id |-> id, fact_text |-> text, is_confirmed |-> FALSE,
   is_included |-> TRUE, source |-> "ai"]

FactRow(id, articleID, text) ==
  [id |-> id, article_id |-> articleID, fact_text |-> text, is_confirmed |-> FALSE,
   is_included |-> TRUE, source |-> "ai"]

GapRow(id, articleID, text) ==
  [id |-> id, article_id |-> articleID, question |-> text, is_selected |-> TRUE,
   is_resolved |-> FALSE]

\* the items insertFacts / insertGaps insert: trimmed, blank ones skipped
CleanItems(items) == DropEmpty([i \in DOMAIN items |-> TrimSpace(items[i])])

\* the deferred tx.Rollback() and the error return of savePhaseOne
RolledBack(k, e) == StageFailed(k, "savePhaseOne", e)

----------------------------------------------------------------------------
(* the environment of the program: process environment, requests of the    *)
(* client, responses of the LLM API, of the fetched site, of the database  *)

MaxRuns == 1

NoEnv ==
  [GROQ_API_KEY |-> <<>>, OPENAI_API_KEY |-> <<>>, GROQ_BASE_URL |-> <<>>,
   OPENAI_BASE_URL |-> <<>>, GROQ_MODEL |-> <<>>, OPENAI_MODEL |-> <<>>]

OpenAISettings == [provider_key |-> <<"openai">>, model_key |-> <<"gpt-4o">>]

\* a database an earlier analyse request has written to
EarlierDB ==
  [SeededDB EXCEPT
     !.articles = <<ArticleRow(1, <<>>, <<Run("lat", 20)>>, <<"t">>, 5)>>,
     !.facts = <<FactRow(1, 1, <<"a">>)>>,
     !.gaps = <<GapRow(1, 1, <<"g">>)>>,
     !.seq = [articles |-> 1, facts |-> 1, gaps |-> 1, topics |-> 6]]

EnvGroq == [NoEnv EXCEPT !.GROQ_API_KEY = <<"gsk">>]
EnvBoth == [NoEnv EXCEPT !.GROQ_API_KEY = <<"gsk">>, !.OPENAI_API_KEY = <<"sk">>]

\* the environment and the database the server starts with
InitConfigs ==
  { <<EnvGroq, SeededDB>>,
    <<EnvGroq, [SeededDB EXCEPT !.settings = OpenAISettings]>>,
    <<EnvBoth, [SeededDB EXCEPT !.settings = OpenAISettings]>>,
    <<EnvBoth, EarlierDB>> }

TxtShort == <<Run("lat", 20)>>
TxtTelugu == <<Run("tel", 10), Run("sp", 1), Run("lat", 5)>>
TxtLong == <<Run("lat", 2000)>>
TxtGap == <<Run("lat", 890), Run("sp", 20), Run("lat", 200)>>
TxtHuge == <<Run("sp", 2), Run("lat", 13000)>>
TxtBlank == <<Run("sp", 3)>>

SomeURL == <<"https://", "example.com/a">>

In(text, url, language, category) ==
  [text |-> text, url |-> url, language |-> language, category |-> category]

Inputs ==
  { In(TxtShort, <<>>, <<>>, <<>>),
    In(TxtTelugu, <<>>, <<>>, <<SP, "sports">>),
    In(TxtLong, SomeURL, <<SP, "TE">>, <<"Local">>),
    In(TxtGap, <<>>, <<"EN">>, <<>>),
    In(TxtTelugu, <<>>, <<"English">>, <<>>),
    In(TxtHuge, <<>>, <<"fr">>, <<>>),
    In(<<>>, <<SP>> \o SomeURL, <<>>, <<>>),
    In(TxtBlank, <<>>, <<>>, <<>>),
    In(TxtBlank, <<"example">>, <<>>, <<>>) }

\* no GET of a source URL
NoFetch == [kind |-> "none", status |-> 0, text |-> <<>>]

\* what the GET of the source URL can end in: a transport error, or a
\* response with a status and a body (text: the body as sanitizeHTMLText
\* leaves it)
FetchResponses ==
  { [kind |-> "err", status |-> 0, text |-> <<>>],
    [kind |-> "http", status |-> 200, text |-> TxtShort],
    [kind |-> "http", status |-> 200, text |-> TxtBlank],
    [kind |-> "http", status |-> 404, text |-> TxtShort],
    [kind |-> "http", status |-> 500, text |-> <<>>] }

\* fetchURLText from the end of the GET on
fetchURLTextRead(response) ==
  IF response.kind = "err" \/ response.status >= 400 THEN [ok |-> FALSE, text |-> <<>>]
  ELSE [ok |-> TRUE, text |-> response.text]

S(w) == <<Q, w, Q>>

\* {"facts":["a","A","b"],"gaps":["g"],"article":"t"}
RespAll ==
  <<"{">> \o S("facts") \o <<":", "[">> \o S("a") \o <<",">> \o S("A") \o <<",">>
    \o S("b") \o <<"]", ",">> \o S("gaps") \o <<":", "[">> \o S("g") \o <<"]", ",">>
    \o S("article") \o <<":">> \o S("t") \o <<"}">>

\* a fenced object whose keys differ in case from the expected ones
RespFenced ==
  <<FENCE, "json", NL, "{">> \o S("Facts") \o <<":", "[">> \o S("a") \o <<",">> \o S("b")
    \o <<"]", ",">> \o S("Gaps") \o <<":", "[">> \o S("g") \o <<"]", ",">>
    \o S("Article") \o <<":">> \o <<Q, SP, "t", Q>> \o <<"}", NL, FENCE>>

\* prose around the object
RespNoisy ==
  <<"Here", ":", SP, "{">> \o S("facts") \o <<":", "[">> \o S("a") \o <<"]", ",">>
    \o S("gaps") \o <<":", "[">> \o S("g") \o <<"]", ",">>
    \o S("article") \o <<":">> \o S("t") \o <<"}", SP, "done">>

\* one unexpected key
RespSingle == <<"{">> \o S("items") \o <<":", "[">> \o S("a") \o <<",", "1", "]", "}">>

\* one unexpected key holding a string
RespText == <<"{">> \o S("text") \o <<":">> \o S("t") \o <<"}">>

\* two keys that equal the expected one once trimmed and case-folded
RespPadded ==
  <<"{">> \o <<Q, "facts", SP, Q>> \o <<":", "[">> \o S("a") \o <<"]", ",">>
    \o <<Q, SP, "Facts", Q>> \o <<":", "[">> \o S("b") \o <<"]", "}">>

\* a key that differs in case only and holds a list with a number in it
RespMixed == <<"{">> \o S("Facts") \o <<":", "[">> \o S("a") \o <<",", "1", "]", "}">>

RespEmpty ==
  <<"{">> \o S("facts") \o <<":", "[", "]", ",">> \o S("gaps") \o <<":", "[", "]", ",">>
    \o S("article") \o <<":", Q, Q, "}">>

\* cut off
RespCut == <<"{">> \o S("facts") \o <<":", "[">> \o S("a")

\* a brace pair in the prose before the object
RespStray == <<"{", "x", "}", SP, "{">> \o S("facts") \o <<":", "[">> \o S("a") \o <<"]", "}">>

\* plain text: two lines, one numbered line, nothing
RespLines == <<"ta", NL, "tb">>
RespLine == <<"1", ".", SP, "tg">>
RespBlank == <<SP>>

\* a JSON list of two strings
RespArray == <<"[">> \o S("ta") \o <<",">> \o S("tb") \o <<"]">>

JSONContents ==
  { RespAll, RespFenced, RespNoisy, RespSingle, RespText, RespPadded, RespMixed,
    RespEmpty, RespCut, RespStray, RespLines }

TextContents == {RespLines, RespLine, RespBlank}

MsgTooLarge == <<"Request too large", SP, "for model">>
MsgResponseFormat == <<"RESPONSE_FORMAT", SP, "is not supported">>
MsgRateLimit == <<"rate limit reached">>

\* what a chat-completion request can end in without content: an
\* apiRequestError (status >= 400) or another error (transport, unreadable
\* body, no choices)
Failures ==
  { ApiErr(413, MsgTooLarge), ApiErr(400, MsgResponseFormat), ApiErr(429, MsgRateLimit),
    Err("call groq") }

\* the responses to a request of callJSONCompletion and to a translation request
JSONResponses == Failures \cup {Content(c) : c \in JSONContents}
TextResponses == Failures \cup {Content(c) : c \in TextContents}

----------------------------------------------------------------------------
(* actions                                                                 *)

Init ==
  /\ \E c \in InitConfigs : env = c[1] /\ db = c[2]
  /\ svc = NewOpenAIService(env)
  /\ pc = "idle"
  /\ inv = EmptyInv
  /\ req = NoReq
  /\ cj = EmptyCJ
  /\ tx = NoTx
  /\ hist = [EmptyHist EXCEPT !.db0 = Rows(db)]
  /\ runs = 0
  /\ pin = <<>>
  /\ pout = <<>>

\* POST /api/analyse reaches RunPhaseOne, which queries app_settings
RunPhaseOne ==
  /\ pc \in {"idle", "done"}
  /\ runs < MaxRuns
  /\ \E input \in Inputs :
       /\ inv' = [EmptyInv EXCEPT !.input = input]
       /\ pc' = "settings"
       /\ req' = NoReq
       /\ cj' = EmptyCJ
       /\ hist' = [EmptyHist EXCEPT !.db0 = Rows(db)]
       /\ runs' = runs + 1
  /\ UNCHANGED <<db, svc, env, tx, pin, pout>>

\* the settings query returns; RunPhaseOne goes on to resolveInput and to
\* ExtractFacts' first request
applyRuntimeAISettings ==
  /\ pc = "settings"
  /\ \E queryOk \in BOOLEAN :
       IF queryOk
       THEN /\ svc' = ApplySettings(svc, env, db.settings.provider_key, db.settings.model_key)
            /\ SetK(resolveInput(K, svc'))
       ELSE /\ svc' = svc
            /\ SetK(ReturnError(K, Err("settings query failed")))
  /\ UNCHANGED <<db, env, tx, runs, pin, pout>>

\* the GET of the source URL returns
fetchURLText ==
  /\ pc = "fetch"
  /\ \E response \in FetchResponses :
       SetK(resolveInputFetched([K EXCEPT !.hist.fetched = response], svc,
                                fetchURLTextRead(response)))
  /\ UNCHANGED <<db, svc, env, tx, runs, pin, pout>>

\* callCompletion returns: the configuration with its result recorded
Responded(response) == [K EXCEPT !.hist.resp = callCompletion(response)]

\* what callJSONCompletion does with the result of its request
CJDecision(k) == callJSONCompletion(k.cj.pos, k.cj.useJSONMode, k.hist.resp)

\* callJSONCompletion returns: the configuration with its result recorded
CJReturned(k, c) ==
  [k EXCEPT !.hist.cjret = [step |-> k.req.step, call |-> k.hist.cjcalls, pos |-> k.cj.pos,
                            from |-> k.hist.resp, err |-> c.err, json |-> c.json]]

\* ExtractFacts from the decision c of callJSONCompletion on: the retry request,
\* or the return to ExtractFacts and what RunPhaseOne does next
ExtractFactsAfter(k, s, c) ==
  IF c.do = "retry" THEN {RetryRequest(k, s, c.pos)}
  ELSE {RunPhaseOneFrom(k2, s) : k2 \in ExtractFactsReturn(CJReturned(k, c), s, c)}

\* a request of ExtractFacts returns
ExtractFactsStep ==
  /\ pc = "http"
  /\ req.step = "extract-facts"
  /\ \E response \in JSONResponses :
       \E k2 \in ExtractFactsAfter(Responded(response), svc, CJDecision(Responded(response))) :
         SetK(k2)
  /\ UNCHANGED <<db, svc, env, tx, runs, pin, pout>>

\* GenerateGapQuestions from the decision c of callJSONCompletion on: the retry request,
\* or the return to GenerateGapQuestions and what RunPhaseOne does next
GenerateGapQuestionsAfter(k, s, c) ==
  IF c.do = "retry" THEN {RetryRequest(k, s, c.pos)}
  ELSE {RunPhaseOneFrom(k2, s) : k2 \in GenerateGapQuestionsReturn(CJReturned(k, c), s, c)}

\* a request of GenerateGapQuestions returns
GenerateGapQuestionsStep ==
  /\ pc = "http"
  /\ req.step = "generate-gaps"
  /\ \E response \in JSONResponses :
       \E k2 \in GenerateGapQuestionsAfter(Responded(response), svc, CJDecision(Responded(response))) :
         SetK(k2)
  /\ UNCHANGED <<db, svc, env, tx, runs, pin, pout>>

\* GenerateStructuredArticle from the decision c of callJSONCompletion on: the retry request,
\* or the return to GenerateStructuredArticle and what RunPhaseOne does next
GenerateStructuredArticleAfter(k, s, c) ==
  IF c.do = "retry" THEN {RetryRequest(k, s, c.pos)}
  ELSE {RunPhaseOneFrom(k2, s) : k2 \in GenerateStructuredArticleReturn(CJReturned(k, c), s, c)}

\* a request of GenerateStructuredArticle returns
GenerateStructuredArticleStep ==
  /\ pc = "http"
  /\ req.step = "generate-article"
  /\ \E response \in JSONResponses :
       \E k2 \in GenerateStructuredArticleAfter(Responded(response), svc, CJDecision(Responded(response))) :
         SetK(k2)
  /\ UNCHANGED <<db, svc, env, tx, runs, pin, pout>>

\* the request of TranslateList returns
TranslateListStep ==
  /\ pc = "http"
  /\ req.step = "translate-list"
  /\ \E response \in TextResponses :
       SetK(RunPhaseOneFrom(
              TranslateListReturn(Responded(response), svc, callCompletion(response)), svc))
  /\ UNCHANGED <<db, svc, env, tx, runs, pin, pout>>

\* a request of TranslateText returns
TranslateTextStep ==
  /\ pc = "http"
  /\ req.step = "translate-article"
  /\ \E response \in TextResponses :
       SetK(RunPhaseOneFrom(
              TranslateTextReturn(Responded(response), svc, callCompletion(response)), svc))
  /\ UNCHANGED <<db, svc, env, tx, runs, pin, pout>>

\* s.database.BeginTx returns; with a blank category resolveTopicID returns
\* nil without a query
BeginTx ==
  /\ pc = "begin"
  /\ \E began \in BOOLEAN :
       IF began
       THEN /\ tx' = OpenTx
            /\ pc' = IF TrimSpace(inv.input.category) = <<>> THEN "article" ELSE "topic"
            /\ UNCHANGED <<inv, req, cj, hist>>
       ELSE /\ tx' = NoTx
            /\ SetK(RolledBack(K, Err("begin transaction failed")))
  /\ UNCHANGED <<db, svc, env, runs, pin, pout>>

\* resolveTopicID: SELECT id FROM topics WHERE LOWER(name) = LOWER(category)
\* LIMIT 1, and the INSERT when no row matches
resolveTopicID ==
  /\ pc = "topic"
  /\ LET cleanCategory == TrimSpace(inv.input.category)
         visible == db.topics \o tx.topics
         found == {i \in DOMAIN visible : ToLower(visible[i].name) = ToLower(cleanCategory)}
         newID == db.seq.topics + 1
     IN \E queryOk \in BOOLEAN :
          IF ~queryOk
          THEN /\ tx' = NoTx
               /\ db' = db
               /\ SetK(RolledBack(K, Err("topic query failed")))
          ELSE IF found # {}
          THEN /\ \E i \in found : tx' = [tx EXCEPT !.topicID = visible[i].id]
               /\ db' = db
               /\ pc' = "article"
               /\ UNCHANGED <<inv, req, cj, hist>>
          ELSE /\ tx' = [tx EXCEPT !.topicID = newID,
                                   !.topics = Append(@, [id |-> newID, name |-> cleanCategory])]
               /\ db' = [db EXCEPT !.seq.topics = newID]
               /\ pc' = "article"
               /\ UNCHANGED <<inv, req, cj, hist>>
  /\ UNCHANGED <<svc, env, runs, pin, pout>>

insertArticle ==
  /\ pc = "article"
  /\ LET newID == db.seq.articles + 1 IN
     \E inserted \in BOOLEAN :
       IF inserted
       THEN /\ tx' = [tx EXCEPT !.articleID = newID,
                                !.articles = Append(@, ArticleRow(newID, inv.sourceURL,
                                                inv.rawText, inv.articleText, tx.topicID))]
            /\ db' = [db EXCEPT !.seq.articles = newID]
            /\ pc' = "facts"
            /\ UNCHANGED <<inv, req, cj, hist>>
       ELSE /\ tx' = NoTx
            /\ db' = db
            /\ SetK(RolledBack(K, Err("insert article failed")))
  /\ UNCHANGED <<svc, env, runs, pin, pout>>

\* insertFacts: one INSERT per non-blank fact; any of them can fail
insertFacts ==
  /\ pc = "facts"
  /\ LET items == CleanItems(inv.facts) IN
     \E done \in 0..Len(items) :
       /\ db' = [db EXCEPT !.seq.facts = @ + done]
       /\ IF done = Len(items)
          THEN /\ tx' = [tx EXCEPT !.facts =
                           [i \in DOMAIN items |-> FactRow(db.seq.facts + i, tx.articleID, items[i])]]
               /\ pc' = "gaps"
               /\ UNCHANGED <<inv, req, cj, hist>>
          ELSE /\ tx' = NoTx
               /\ SetK(RolledBack(K, Err("insert fact failed")))
  /\ UNCHANGED <<svc, env, runs, pin, pout>>

\* insertGaps: one INSERT per non-blank gap; any of them can fail
insertGaps ==
  /\ pc = "gaps"
  /\ LET items == CleanItems(inv.gaps) IN
     \E done \in 0..Len(items) :
       /\ db' = [db EXCEPT !.seq.gaps = @ + done]
       /\ IF done = Len(items)
          THEN /\ tx' = [tx EXCEPT !.gaps =
                           [i \in DOMAIN items |-> GapRow(db.seq.gaps + i, tx.articleID, items[i])]]
               /\ pc' = "commit"
               /\ UNCHANGED <<inv, req, cj, hist>>
          ELSE /\ tx' = NoTx
               /\ SetK(RolledBack(K, Err("insert gap failed")))
  /\ UNCHANGED <<svc, env, runs, pin, pout>>

\* tx.Commit returns; on success RunPhaseOne returns its response
Commit ==
  /\ pc = "commit"
  /\ \E committed \in BOOLEAN :
       IF committed
       THEN /\ db' = [db EXCEPT !.topics = @ \o tx.topics, !.articles = @ \o tx.articles,
                                !.facts = @ \o tx.facts, !.gaps = @ \o tx.gaps]
            /\ SetK([Returned(K, Ret("savePhaseOne", TRUE, <<>>))
                       EXCEPT !.pc = "done", !.inv.ok = TRUE, !.inv.articleID = tx.articleID])
       ELSE /\ db' = db
            /\ SetK(RolledBack(K, Err("commit failed")))
  /\ tx' = NoTx
  /\ UNCHANGED <<svc, env, runs, pin, pout>>

Next ==
  \/ RunPhaseOne
  \/ applyRuntimeAISettings
  \/ fetchURLText
  \/ ExtractFactsStep
  \/ GenerateGapQuestionsStep
  \/ GenerateStructuredArticleStep
  \/ TranslateListStep
  \/ TranslateTextStep
  \/ BeginTx
  \/ resolveTopicID
  \/ insertArticle
  \/ insertFacts
  \/ insertGaps
  \/ Commit

Spec == Init /\ [][Next]_vars

----------------------------------------------------------------------------
(* normalizeJSONContent and normalizeOutputLanguage on their own: the      *)
(* input is drawn in the initial state (pin), one step applies the         *)
(* function (pout)                                                         *)

MaxContentLen == 5

RECURSIVE SeqsUpTo(_, _)
SeqsUpTo(alphabet, n) ==
  IF n = 0 THEN {<<>>}
  ELSE LET shorter == SeqsUpTo(alphabet, n - 1) IN
       shorter \cup {Append(t, a) : t \in shorter, a \in alphabet}

\* {"a":"}\""}: a closing brace and an escaped quote inside a string
RespEscaped == <<"{">> \o S("a") \o <<":", Q, "}", BS, Q, Q, "}">>

\* the contents normalizeJSONContent is applied to
NormalizerInputs ==
  SeqsUpTo({"{", "}", Q, "x", SP}, MaxContentLen)
    \cup JSONContents \cup TextContents \cup {RespEscaped, RespArray}

Idle(p, i) ==
  /\ pc = p
  /\ pin = i
  /\ pout = <<>>
  /\ env = EnvGroq
  /\ db = SeededDB
  /\ svc = NewOpenAIService(env)
  /\ inv = EmptyInv
  /\ req = NoReq
  /\ cj = EmptyCJ
  /\ tx = NoTx
  /\ hist = EmptyHist
  /\ runs = 0

InitJSON == \E content \in NormalizerInputs : Idle("json", content)

NormalizeContent ==
  /\ pc = "json"
  /\ pout' = normalizeJSONContent(pin)
  /\ pc' = "json-done"
  /\ UNCHANGED <<db, svc, env, inv, req, cj, tx, hist, runs, pin>>

SpecJSON == InitJSON /\ [][NormalizeContent]_vars

LanguageWords ==
  {"te", "TE", "telugu", "Telugu", TeluguName, "en", "EN", "english", "English", "fr", "tel"}

\* the language values of a request: a word, bare or padded, or nothing
LanguageValues ==
  {<<>>, <<SP>>} \cup UNION {{<<w>>, <<SP, w>>, <<w, SP>>} : w \in LanguageWords}

LanguageTexts ==
  {TxtShort, TxtTelugu, TxtBlank, TxtHuge, <<Run("lat", 3), Run("sp", 1), Run("tel", 1)>>}

InitLang ==
  \E requested \in LanguageValues, text \in LanguageTexts :
    Idle("lang", [requested |-> requested, text |-> text])

NormalizeLanguage ==
  /\ pc = "lang"
  /\ pout' = normalizeOutputLanguage(pin.requested, pin.text)
  /\ pc' = "lang-done"
  /\ UNCHANGED <<db, svc, env, inv, req, cj, tx, hist, runs, pin>>

SpecLang == InitLang /\ [][NormalizeLanguage]_vars

----------------------------------------------------------------------------
(* the OpenAIService on its own: ApplySettings and the methods called one  *)
(* after the other, in any order.  A method does not change the service,   *)
(* so what an earlier method returned does not bear on the next call: the  *)
(* methods are called on the service as NewOpenAIService or ApplySettings  *)
(* left it, and ApplySettings ends the record of the previous call.        *)

EnvNone == NoEnv
EnvOpenAIOnly == [NoEnv EXCEPT !.OPENAI_API_KEY = <<SP, "sk">>]
\* an OpenAI-compatible endpoint of groq configured as the openai base URL
EnvGroqURL ==
  [EnvBoth EXCEPT !.OPENAI_BASE_URL = <<"https://api.", "GROQ", ".example/v1", "/">>]

ServiceEnvs == {EnvNone, EnvGroq, EnvOpenAIOnly, EnvBoth, EnvGroqURL}

SettingsProviders == {<<"groq">>, <<SP, "OpenAI">>, <<"openai">>, <<>>}
SettingsModels == {<<>>, <<"gpt-4o", SP>>}

ServiceLanguages == {<<"English">>, <<SP, "english">>, <<"Telugu">>}

ListItems == {<<"a">>, <<"A">>, <<"b", SP>>, <<SP>>}

MaxListLen == 3

\* the lists the list functions are applied to
Lists == SeqsUpTo(ListItems, MaxListLen)

H(i) == <<"h", i>>
SevenItems == <<H("1"), H("2"), H("3"), H("4"), H("5"), H("6"), H("7")>>
NineItems ==
  <<H("1"), <<"H", "1">>, <<SP>> \o H("2"), H("2"), H("3"), <<>>, H("4"), H("5"), H("6")>>

\* the lists a model answers with
ResponseLists ==
  SeqsUpTo(ListItems, 2)
    \cup {SevenItems, NineItems, SubSeq(SevenItems, 1, 5), SubSeq(SevenItems, 1, 4)}

RECURSIVE EncodeItems(_)
EncodeItems(items) ==
  IF items = <<>> THEN <<>>
  ELSE IF Len(items) = 1 THEN <<Q>> \o Head(items) \o <<Q>>
  ELSE <<Q>> \o Head(items) \o <<Q, ",">> \o EncodeItems(Tail(items))

\* {"key":["item",...]}
EncodeList(key, items) ==
  <<"{", Q, key, Q, ":", "[">> \o EncodeItems(items) \o <<"]", "}">>

ListKey(step) ==
  CASE step = "extract-facts" -> "facts"
    [] step = "generate-gaps" -> "gaps"
    [] step = "generate-headlines" -> "headlines"
    [] step = "generate-straplines" -> "straplines"
    [] OTHER -> "article"

\* the responses to a request of the JSON stage `step`
ServiceResponses(step) ==
  Failures
    \cup {Content(c) : c \in {RespAll, RespCut, RespMixed, RespSingle}}
    \cup (IF step = "generate-article" THEN {}
          ELSE {Content(EncodeList(ListKey(step), l)) : l \in ResponseLists})

\* bullets, numbering, a blank line and a repeated line
RespBullets == <<"-", SP, "ta", NL, NL, "2", ")", SP, "tb", NL, "ta">>

\* the responses to a translation request made of the service
ServiceTextResponses == TextResponses \cup {Content(RespArray), Content(RespBullets)}

\* the configuration in which a method of the service is called
K0(language, article) ==
  [pc |-> "idle",
   inv |-> [EmptyInv EXCEPT !.outputLanguage = language, !.articleText = article],
   req |-> NoReq, cj |-> EmptyCJ, hist |-> EmptyHist]

InitService ==
  /\ env \in ServiceEnvs
  /\ svc = NewOpenAIService(env)
  /\ db = SeededDB
  /\ pc = "idle"
  /\ inv = EmptyInv
  /\ req = NoReq
  /\ cj = EmptyCJ
  /\ tx = NoTx
  /\ hist = EmptyHist
  /\ runs = 0
  /\ pin = <<>>
  /\ pout = <<>>

ApplySettingsCalled ==
  /\ pc # "http"
  /\ \E provider \in SettingsProviders, model \in SettingsModels :
       svc' = ApplySettings(svc, env, provider, model)
  /\ SetK(K0(<<>>, <<>>))
  /\ pout' = <<>>
  /\ UNCHANGED <<db, env, tx, runs, pin>>

ExtractFactsCalled ==
  /\ pc = "idle"
  /\ \E text \in {TxtShort, TxtLong, TxtBlank}, language \in ServiceLanguages :
       SetK(ExtractFacts(K0(language, <<>>), svc, text, language))
  /\ pout' = <<>>
  /\ UNCHANGED <<db, svc, env, tx, runs, pin>>

GenerateGapQuestionsCalled ==
  /\ pc = "idle"
  /\ \E facts \in {<<>>, <<<<"a">>>>} :
       SetK(GenerateGapQuestions(K0(<<"English">>, <<>>), svc, <<>>, facts, <<"English">>))
  /\ pout' = <<>>
  /\ UNCHANGED <<db, svc, env, tx, runs, pin>>

GenerateStructuredArticleCalled ==
  /\ pc = "idle"
  /\ \E facts \in {<<>>, <<<<"a">>>>} :
       SetK(GenerateStructuredArticle(K0(<<"English">>, <<>>), svc, facts, <<>>, <<"English">>))
  /\ pout' = <<>>
  /\ UNCHANGED <<db, svc, env, tx, runs, pin>>

GenerateHeadlineOptionsCalled ==
  /\ pc = "idle"
  /\ \E facts \in {<<>>, <<<<SP>>>>, <<<<"a">>>>} :
       SetK(GenerateHeadlineOptions(K0(<<"English">>, <<>>), svc, facts, <<"t">>, <<"English">>))
  /\ pout' = <<>>
  /\ UNCHANGED <<db, svc, env, tx, runs, pin>>

GenerateStraplineOptionsCalled ==
  /\ pc = "idle"
  /\ \E facts \in {<<>>, <<<<"a">>>>}, gaps \in {<<>>, <<<<"g">>>>} :
       SetK(GenerateStraplineOptions(K0(<<"English">>, <<>>), svc, facts, gaps, <<"t">>,
                                     <<"English">>))
  /\ pout' = <<>>
  /\ UNCHANGED <<db, svc, env, tx, runs, pin>>

\* the lists TranslateList is given for a language that needs a request
TranslateLists ==
  { <<<<"a">>>>, <<<<"a">>, <<"b">>>>, <<<<"a">>, <<"b">>, <<"c">>>>,
    <<<<"a">>, <<SP>>, <<"b">>>>, <<<<"a">>, <<"A">>>>, <<<<SP>>>> }

TranslateListCalled ==
  /\ pc = "idle"
  /\ \E language \in ServiceLanguages :
       \E items \in (IF EqualFold(TrimSpace(language), <<"English">>)
                     THEN Lists ELSE TranslateLists \cup {<<>>}) :
         SetK(TranslateListStart(K0(language, <<>>), svc, items, "facts"))
  /\ pout' = <<>>
  /\ UNCHANGED <<db, svc, env, tx, runs, pin>>

TranslateTextCalled ==
  /\ pc = "idle"
  /\ \E language \in ServiceLanguages, text \in {<<"t">>, <<SP, "t", SP>>, <<SP>>} :
       SetK(TranslateArticle(K0(language, text), svc))
  /\ pout' = <<>>
  /\ UNCHANGED <<db, svc, env, tx, runs, pin>>

MaxLimit == 4

\* limitListItems applied to a list and a maximum
LimitListItemsCalled ==
  /\ pc = "idle"
  /\ \E values \in Lists \cup {SevenItems}, max \in (-1)..MaxLimit :
       pout' = [values |-> values, max |-> max, limited |-> limitListItems(values, max)]
  /\ pc' = "returned"
  /\ UNCHANGED <<db, svc, env, inv, req, cj, tx, hist, runs, pin>>

\* the return of the JSON stage of step k.req.step from the decision c of
\* callJSONCompletion
StageReturn(k, s, c) ==
  CASE k.req.step = "extract-facts" -> ExtractFactsReturn(k, s, c)
    [] k.req.step = "generate-gaps" -> GenerateGapQuestionsReturn(k, s, c)
    [] k.req.step = "generate-article" -> GenerateStructuredArticleReturn(k, s, c)
    [] k.req.step = "generate-headlines" -> GenerateHeadlineOptionsReturn(k, s, c)
    [] OTHER -> GenerateStraplineOptionsReturn(k, s, c)

StageAfter(k, s, c) ==
  IF c.do = "retry" THEN {RetryRequest(k, s, c.pos)}
  ELSE StageReturn(CJReturned(k, c), s, c)

\* a request of callJSONCompletion returns
JSONRequestReturned ==
  /\ pc = "http"
  /\ req.step \notin {"translate-list", "translate-article"}
  /\ \E response \in ServiceResponses(req.step) :
       \E k2 \in StageAfter(Responded(response), svc, CJDecision(Responded(response))) :
         SetK(k2)
  /\ UNCHANGED <<db, svc, env, tx, runs, pin, pout>>

\* the request of TranslateList returns
TranslateListRequestReturned ==
  /\ pc = "http"
  /\ req.step = "translate-list"
  /\ \E response \in ServiceTextResponses :
       SetK(TranslateListReturn(Responded(response), svc, callCompletion(response)))
  /\ UNCHANGED <<db, svc, env, tx, runs, pin, pout>>

\* a request of TranslateText returns
TranslateTextRequestReturned ==
  /\ pc = "http"
  /\ req.step = "translate-article"
  /\ \E response \in ServiceTextResponses :
       SetK(TranslateTextReturn(Responded(response), svc, callCompletion(response)))
  /\ UNCHANGED <<db, svc, env, tx, runs, pin, pout>>

NextService ==
  \/ ApplySettingsCalled
  \/ ExtractFactsCalled
  \/ GenerateGapQuestionsCalled
  \/ GenerateStructuredArticleCalled
  \/ GenerateHeadlineOptionsCalled
  \/ GenerateStraplineOptionsCalled
  \/ TranslateListCalled
  \/ TranslateTextCalled
  \/ LimitListItemsCalled
  \/ JSONRequestReturned
  \/ TranslateListRequestReturned
  \/ TranslateTextRequestReturned

SpecService == InitService /\ [][NextService]_vars

----------------------------------------------------------------------------
(* callCompletion on a response read: status and body are drawn in the     *)
(* initial state                                                           *)

Pair(key, value) == <<Q, key, Q, ":">> \o value
Str(text) == <<Q>> \o text \o <<Q>>
Obj(members) == <<"{">> \o members \o <<"}">>

BodyNoJSON == <<"upstream", SP, "timeout">>

ErrorBodies ==
  { Obj(Pair("error", Obj(Pair("message", Str(<<"m1">>))))),
    Obj(Pair("error", Obj(Pair("message", Str(<<"m1">>)))) \o <<",">>
          \o Pair("message", Str(<<"m3">>))),
    Obj(Pair("error", Obj(Pair("message", Str(<<SP>>)))) \o <<",">>
          \o Pair("message", Str(<<"m3">>))),
    Obj(Pair("error", Obj(Pair("message", <<"1">>))) \o <<",">>
          \o Pair("message", Str(<<SP, "m3">>))),
    Obj(Pair("error", Obj(Pair("code", Str(<<"c">>))))),
    Obj(Pair("error", Str(<<"m2">>))),
    Obj(Pair("error", Str(<<"m2">>)) \o <<",">> \o Pair("message", Str(<<"m3">>))),
    Obj(Pair("error", Str(<<SP>>)) \o <<",">> \o Pair("message", Str(<<"m3">>))),
    Obj(Pair("error", <<"[">> \o Str(<<"m2">>) \o <<"]">>)),
    Obj(Pair("Error", Str(<<"m2">>))),
    Obj(Pair("message", Str(<<"m3">>))),
    Obj(Pair("message", Str(<<>>))),
    Obj(<<>>), <<"null">>, <<"[", "]">>, BodyNoJSON, <<>> }

Choice(content) == Obj(Pair("message", Obj(Pair("role", Str(<<"assistant">>)) \o <<",">>
                                             \o Pair("content", content))))

CompletionBodies ==
  { Obj(Pair("choices", <<"[">> \o Choice(Str(<<SP, "hi", SP>>)) \o <<"]">>)),
    Obj(Pair("choices", <<"[">> \o Choice(Str(<<"one">>)) \o <<",">>
                          \o Choice(Str(<<"two">>)) \o <<"]">>)),
    Obj(Pair("Choices", <<"[">> \o Choice(Str(RespAll)) \o <<"]">>)),
    Obj(Pair("choices", <<"[">> \o Choice(Str(<<>>)) \o <<"]">>)),
    Obj(Pair("choices", <<"[">> \o Choice(<<"1">>) \o <<"]">>)),
    Obj(Pair("choices", <<"[">> \o Obj(<<>>) \o <<"]">>)),
    Obj(Pair("choices", <<"[", "]">>)),
    Obj(Pair("choices", Str(<<"x">>))),
    Obj(Pair("id", Str(<<"x">>))) }

Statuses == {200, 201, 399, 400, 401, 413, 429, 500}

InitRead ==
  \E status \in Statuses, body \in ErrorBodies \cup CompletionBodies :
    Idle("read", [status |-> status, body |-> body])

ResponseRead ==
  /\ pc = "read"
  /\ pout' = callCompletionRead(pin.status, pin.body)
  /\ pc' = "read-done"
  /\ UNCHANGED <<db, svc, env, inv, req, cj, tx, hist, runs, pin>>

SpecRead == InitRead /\ [][ResponseRead]_vars

----------------------------------------------------------------------------
(* POST /api/analyse: the controller in front of RunPhaseOne               *)

AnalyseRequest(text, url, content, language) ==
  [text |-> text, url |-> url, content |-> content, language |-> language]

AnalyseRequests ==
  { AnalyseRequest(TxtShort, <<>>, <<>>, <<>>),
    AnalyseRequest(TxtBlank, <<>>, TxtTelugu, <<SP, "en">>),
    AnalyseRequest(TxtShort, <<SP>> \o SomeURL, <<>>, <<"TE", SP>>),
    AnalyseRequest(<<>>, <<SP>> \o SomeURL, <<>>, <<>>),
    AnalyseRequest(TxtBlank, SomeURL, TxtBlank, <<>>),
    AnalyseRequest(<<>>, <<"example">>, <<>>, <<>>),
    AnalyseRequest(TxtBlank, <<SP>>, <<>>, <<>>),
    AnalyseRequest(<<>>, <<>>, <<>>, <<"te">>) }

Answer(status, error) == [status |-> status, error |-> error]

\* AnalyseArticle up to its answer 400 or to RunPhaseOne's settings query
AnalyseArticle ==
  /\ pc \in {"idle", "done"}
  /\ runs < MaxRuns
  /\ \E request \in AnalyseRequests, bound \in BOOLEAN :
       LET text == IF TrimSpaceText(request.text) = <<>> THEN TrimSpaceText(request.content)
                   ELSE TrimSpaceText(request.text)
           urlValue == TrimSpace(request.url)
           language == TrimSpace(request.language)
       IN /\ pin' = [request |-> request, bound |-> bound]
          /\ IF ~bound
             THEN /\ pout' = Answer(400, <<"invalid request body">>)
                  /\ pc' = "done"
                  /\ inv' = EmptyInv
             ELSE IF text = <<>> /\ urlValue = <<>>
             THEN /\ pout' = Answer(400, <<"provide either text or url">>)
                  /\ pc' = "done"
                  /\ inv' = EmptyInv
             ELSE /\ pout' = <<>>
                  /\ pc' = "settings"
                  /\ inv' = [EmptyInv EXCEPT !.input = In(text, urlValue, language, <<>>)]
  /\ req' = NoReq
  /\ cj' = EmptyCJ
  /\ hist' = [EmptyHist EXCEPT !.db0 = Rows(db)]
  /\ runs' = runs + 1
  /\ UNCHANGED <<db, svc, env, tx>>

NextAnalyse ==
  \/ AnalyseArticle
  \/ applyRuntimeAISettings
  \/ fetchURLText
  \/ ExtractFactsStep
  \/ GenerateGapQuestionsStep
  \/ GenerateStructuredArticleStep
  \/ TranslateListStep
  \/ TranslateTextStep
  \/ BeginTx
  \/ insertArticle
  \/ insertFacts
  \/ insertGaps
  \/ Commit

\* the controller passes no Category, so that resolveTopicID never queries
SpecAnalyse == Init /\ [][NextAnalyse]_vars

----------------------------------------------------------------------------
(* the errors of AdminService and the answers of the admin controller      *)

\* an error with a message of several phrases
ErrorOf(msg) == [kind |-> "err", status |-> 0, msg |-> msg]

ErrNoRows == Err("sql: no rows in result set")
ErrSettingsRequired == ErrorOf(<<"provider and model are", SP, "required">>)
ErrInvalidSelection == ErrorOf(<<"invalid", SP, "provider/model selection">>)
ErrStatus == ErrorOf(<<"status", SP, "must be", SP, "draft, pending, or completed">>)
ErrCategoryEmpty == ErrorOf(<<"category cannot be empty">>)
ErrFactTextRequired == ErrorOf(<<"fact text is", SP, "required">>)

respondWithError(err) ==
  LET lower == ToLower(err.msg)
  IN IF err = ErrNoRows THEN [status |-> 404, error |-> <<"record not found">>]
     ELSE IF \/ Contains(lower, "required")
             \/ Contains(lower, "invalid")
             \/ Contains(lower, "must be")
             \/ Contains(lower, "no fact fields provided")
             \/ Contains(lower, "no gap fields provided")
             \/ Contains(lower, "no analysis fields provided")
       THEN [status |-> 400, error |-> err.msg]
     ELSE [status |-> 500, error |-> err.msg]

----------------------------------------------------------------------------
(* the stored settings under the two drivers: one deployment per driver,   *)
(* both receiving the same admin requests and the same restarts            *)

Drivers == {"postgres", "mysql"}

\* ai_providers joined with ai_models as ensureSchema seeds them
ProviderModels ==
  { <<"openai", "gpt-4o">>, <<"openai", "gpt-4o-mini">>, <<"openai", "gpt-3.5-turbo">>,
    <<"groq", "llama-3.3-70b-versatile">>, <<"groq", "mixtral-8x7b-32768">>,
    <<"groq", "gemma2-9b-it">> }

\* app_settings without its row
NoSettings == [provider_key |-> <<>>, model_key |-> <<>>]

\* the INSERT of the app_settings row that ends ensureSchema: ON CONFLICT
\* (id) DO NOTHING on postgres, ON DUPLICATE KEY UPDATE on mysql
ensureSchema(d, driver) ==
  IF driver = "postgres"
    THEN [d EXCEPT !.settings = IF @ = NoSettings THEN SeedSettings ELSE @]
  ELSE [d EXCEPT !.settings = SeedSettings]

\* UpdateSettings storing the keys without the query that matches them
UpdateSettingsUnmatched(d, driver, providerKey, modelKey, dbOk) ==
  LET cleanProvider == TrimSpace(providerKey)
      cleanModel == TrimSpace(modelKey)
  IN IF cleanProvider = <<>> \/ cleanModel = <<>>
       THEN [db |-> d, err |-> ErrSettingsRequired]
     ELSE IF ~dbOk THEN [db |-> d, err |-> Err("database error")]
     ELSE [db |-> [d EXCEPT !.settings = [provider_key |-> cleanProvider,
                                          model_key |-> cleanModel]],
           err |-> NoErr]

\* AdminService.UpdateSettings: the database after it and its error
UpdateSettings(d, driver, providerKey, modelKey, dbOk) ==
  LET cleanProvider == TrimSpace(providerKey)
      cleanModel == TrimSpace(modelKey)
  IN IF cleanProvider = <<>> \/ cleanModel = <<>>
       THEN [db |-> d, err |-> ErrSettingsRequired]
     ELSE IF ~dbOk THEN [db |-> d, err |-> Err("database error")]
     ELSE IF \A pm \in ProviderModels : <<pm[1]>> # cleanProvider \/ <<pm[2]>> # cleanModel
       THEN [db |-> d, err |-> ErrInvalidSelection]
     ELSE IF driver \in {"postgres", "mysql"}
       THEN [db |-> [d EXCEPT !.settings = [provider_key |-> cleanProvider,
                                            model_key |-> cleanModel]],
             err |-> NoErr]
     ELSE [db |-> d, err |-> Err("unsupported database driver")]

\* AdminService.GetSettings: Provider and Model of the response
GetSettings(d, dbOk) ==
  IF ~dbOk THEN [err |-> Err("database error"), provider |-> <<>>, model |-> <<>>]
  ELSE [err |-> NoErr, provider |-> d.settings.provider_key, model |-> d.settings.model_key]

\* the 200 of a settings response, or the status respondWithError answers
SettingsAnswer(settings) ==
  IF settings.err = NoErr
    THEN [status |-> 200, provider |-> settings.provider, model |-> settings.model]
  ELSE [status |-> respondWithError(settings.err).status, provider |-> <<>>, model |-> <<>>]

UpdateProviders == {<<"groq">>, <<SP, "openai">>, <<"mistral">>, <<>>}
UpdateModels ==
  {<<"gpt-4o">>, <<"gpt-4o-mini", SP>>, <<"llama-3.3-70b-versatile">>, <<"gemma2-9b-it">>, <<SP>>}

MaxRestarts == 2

NoChoice == [provider_key |-> <<"none">>, model_key |-> <<"none">>]

\* both deployments initialised by their first Connect; hist.chosen: the
\* row the last successful UpdateSettings chose; hist.restarts: the
\* restarts so far; hist.since: the restarts since that UpdateSettings
InitSettings ==
  /\ db = [driver \in Drivers |-> ensureSchema([SeededDB EXCEPT !.settings = NoSettings], driver)]
  /\ pc = "serving"
  /\ hist = [chosen |-> NoChoice, restarts |-> 0, since |-> 0]
  /\ pin = <<>>
  /\ pout = <<>>
  /\ env = EnvGroq
  /\ svc = NewOpenAIService(env)
  /\ inv = EmptyInv
  /\ req = NoReq
  /\ cj = EmptyCJ
  /\ tx = NoTx
  /\ runs = 0

\* PUT /api/admin/settings: AdminController.UpdateSettings
UpdateSettingsHandled ==
  /\ pc = "serving"
  /\ \E providerKey \in UpdateProviders, modelKey \in UpdateModels, dbOk \in BOOLEAN :
       LET updated == [driver \in Drivers |->
                         UpdateSettings(db[driver], driver, providerKey, modelKey, dbOk)]
       IN /\ db' = [driver \in Drivers |-> updated[driver].db]
          /\ pout' = [driver \in Drivers |->
                        IF updated[driver].err # NoErr THEN SettingsAnswer(updated[driver])
                        ELSE SettingsAnswer(GetSettings(updated[driver].db, TRUE))]
          /\ pin' = <<"UpdateSettings", providerKey, modelKey>>
          /\ hist' = IF updated["postgres"].err = NoErr /\ updated["mysql"].err = NoErr
                     THEN [hist EXCEPT !.chosen = [provider_key |-> TrimSpace(providerKey),
                                                   model_key |-> TrimSpace(modelKey)],
                                       !.since = 0]
                     ELSE hist
  /\ UNCHANGED <<svc, env, pc, inv, req, cj, tx, runs>>

\* GET /api/admin/settings: AdminController.GetSettings
GetSettingsHandled ==
  /\ pc = "serving"
  /\ \E dbOk \in BOOLEAN :
       pout' = [driver \in Drivers |-> SettingsAnswer(GetSettings(db[driver], dbOk))]
  /\ pin' = <<"GetSettings">>
  /\ UNCHANGED <<db, svc, env, pc, inv, req, cj, tx, hist, runs>>

\* the server is stopped and started again: Connect runs ensureSchema on the
\* initialised database, or fails before its last statement and leaves the
\* server down
Connect ==
  /\ hist.restarts < MaxRestarts
  /\ \E connected \in BOOLEAN :
       IF connected
       THEN /\ db' = [driver \in Drivers |-> ensureSchema(db[driver], driver)]
            /\ pc' = "serving"
       ELSE /\ db' = db
            /\ pc' = "down"
  /\ hist' = [hist EXCEPT !.restarts = @ + 1,
                          !.since = IF hist.chosen = NoChoice THEN 0 ELSE @ + 1]
  /\ pin' = <<"Connect">>
  /\ pout' = <<>>
  /\ UNCHANGED <<svc, env, inv, req, cj, tx, runs>>

NextSettings == UpdateSettingsHandled \/ GetSettingsHandled \/ Connect

SpecSettings == InitSettings /\ [][NextSettings]_vars

----------------------------------------------------------------------------
(* AdminService.UpdateAnalysis on the articles and topics tables           *)

\* a *string argument: nil, or a pointer to a value
NilString == [set |-> FALSE, value |-> <<>>]
StringPtr(value) == [set |-> TRUE, value |-> value]

normalizeAnalysisStatus(status) ==
  LET clean == ToLower(TrimSpace(status))
  IN IF clean \in {<<"draft">>, <<"pending">>, <<"completed">>}
       THEN [status |-> clean, err |-> NoErr]
     ELSE [status |-> <<>>, err |-> ErrStatus]

\* getOrCreateTopic: the database after it, the topic id and the error;
\* failing: the statement the database fails at
getOrCreateTopic(d, category, failing) ==
  LET cleanCategory == TrimSpace(category)
      found == {i \in DOMAIN d.topics : ToLower(d.topics[i].name) = ToLower(cleanCategory)}
      newID == d.seq.topics + 1
  IN IF cleanCategory = <<>>
       THEN [db |-> d, topicID |-> 0, err |-> ErrCategoryEmpty]
     ELSE IF failing = "select" THEN [db |-> d, topicID |-> 0, err |-> Err("database error")]
     ELSE IF found # {}
       THEN [db |-> d, topicID |-> d.topics[CHOOSE i \in found : \A j \in found : i <= j].id,
             err |-> NoErr]
     ELSE IF failing = "insert" THEN [db |-> d, topicID |-> 0, err |-> Err("database error")]
     ELSE [db |-> [d EXCEPT !.topics = Append(@, [id |-> newID, name |-> cleanCategory]),
                            !.seq.topics = newID],
           topicID |-> newID, err |-> NoErr]

ensureRowsAffected(affected) == IF affected = 0 THEN ErrNoRows ELSE NoErr

\* UPDATE articles SET ... WHERE id = articleID; the status column holds
\* the one word of the normalised status
UpdateArticles(d, articleID, statusSet, status, topicSet, topicID) ==
  [d EXCEPT !.articles =
     [i \in DOMAIN @ |->
        IF @[i].id # articleID THEN @[i]
        ELSE [@[i] EXCEPT !.status = IF statusSet THEN Head(status) ELSE @,
                          !.topic_id = IF topicSet THEN topicID ELSE @]]]

\* AdminService.UpdateAnalysis: the database after it and its error
UpdateAnalysis(d, articleID, status, category, failing) ==
  LET normalized == IF status.set THEN normalizeAnalysisStatus(status.value)
                    ELSE [status |-> <<>>, err |-> NoErr]
      topic == IF category.set THEN getOrCreateTopic(d, category.value, failing)
               ELSE [db |-> d, topicID |-> 0, err |-> NoErr]
      affected == Cardinality({i \in DOMAIN d.articles : d.articles[i].id = articleID})
  IN IF normalized.err # NoErr THEN [db |-> d, err |-> normalized.err]
     ELSE IF topic.err # NoErr THEN [db |-> topic.db, err |-> topic.err]
     ELSE IF ~status.set /\ ~category.set
       THEN [db |-> topic.db, err |-> Err("no analysis fields provided")]
     ELSE IF failing = "update" THEN [db |-> topic.db, err |-> Err("database error")]
     ELSE [db |-> UpdateArticles(topic.db, articleID, status.set, normalized.status,
                                 category.set, topic.topicID),
           err |-> ensureRowsAffected(affected)]

ArticleIDs == {1, 2}
StatusArgs == {NilString, StringPtr(<<"draft">>), StringPtr(<<SP, "Completed">>),
               StringPtr(<<"published">>)}
CategoryArgs == {NilString, StringPtr(<<"sports">>), StringPtr(<<SP, "Weather">>),
                 StringPtr(<<"weather">>), StringPtr(<<SP>>)}
Failings == {"none", "select", "insert", "update"}

MaxCalls == 2

\* hist.db0: the rows before the last call
InitAnalysis ==
  /\ db \in {SeededDB, EarlierDB}
  /\ pc = "serving"
  /\ hist = [EmptyHist EXCEPT !.db0 = Rows(db)]
  /\ pin = <<>>
  /\ pout = <<>>
  /\ runs = 0
  /\ env = EnvGroq
  /\ svc = NewOpenAIService(env)
  /\ inv = EmptyInv
  /\ req = NoReq
  /\ cj = EmptyCJ
  /\ tx = NoTx

UpdateAnalysisCalled ==
  /\ runs < MaxCalls
  /\ \E articleID \in ArticleIDs, status \in StatusArgs, category \in CategoryArgs,
        failing \in Failings :
       LET updated == UpdateAnalysis(db, articleID, status, category, failing)
       IN /\ db' = updated.db
          /\ pout' = updated.err
          /\ pin' = [articleID |-> articleID, status |-> status, category |-> category]
  /\ hist' = [hist EXCEPT !.db0 = Rows(db)]
  /\ runs' = runs + 1
  /\ UNCHANGED <<svc, env, pc, inv, req, cj, tx>>

SpecAnalysis == InitAnalysis /\ [][UpdateAnalysisCalled]_vars

----------------------------------------------------------------------------
(* concurrent requests: every POST /api/analyse runs RunPhaseOne in its    *)
(* own goroutine on the one FactService of the controller, whose           *)
(* OpenAIService has no lock; PUT /api/settings rewrites the app_settings   *)
(* row meanwhile. Here pc, inv and req are functions of the invocation.    *)

Invocations == {1, 2}

\* the chat-completion requests one invocation issues in this specification
MaxRequests == 2

\* the fields ApplySettings assigns, in the order of its assignments
SettingsWrites == <<"model", "apiKey", "baseURL", "provider">>

NoRow == [provider_key |-> <<>>, model_key |-> <<>>]

\* invocation i calls RunPhaseOne, which sends the settings query
RunPhaseOneBegins(i) ==
  /\ pc[i] = "idle"
  /\ pc' = [pc EXCEPT ![i] = "settings"]
  /\ UNCHANGED <<db, svc, env, inv, req, cj, tx, hist, runs, pin, pout>>

\* the settings query of invocation i returns: an error ends RunPhaseOne,
\* a row is handed to ApplySettings
SettingsQueried(i) ==
  /\ pc[i] = "settings"
  /\ \E queryOk \in BOOLEAN :
       IF queryOk
       THEN /\ inv' = [inv EXCEPT ![i] = [row |-> db.settings, written |-> 0]]
            /\ pc' = [pc EXCEPT ![i] = "apply"]
       ELSE /\ inv' = inv
            /\ pc' = [pc EXCEPT ![i] = "done"]
  /\ UNCHANGED <<db, svc, env, req, cj, tx, hist, runs, pin, pout>>

\* one assignment of ApplySettings in invocation i; the assignments of two
\* goroutines to the shared service interleave
ApplySettingsWrites(i) ==
  /\ pc[i] = "apply"
  /\ LET field == SettingsWrites[inv[i].written + 1]
         applied == ApplySettings(svc, env, inv[i].row.provider_key, inv[i].row.model_key)
     IN svc' = [svc EXCEPT ![field] = applied[field]]
  /\ inv' = [inv EXCEPT ![i].written = @ + 1]
  /\ pc' = [pc EXCEPT ![i] = IF inv[i].written + 1 = Len(SettingsWrites) THEN "call" ELSE "apply"]
  /\ UNCHANGED <<db, env, req, cj, tx, hist, runs, pin, pout>>

\* callCompletion in invocation i builds its request from the fields of the
\* service as they are now
callCompletionSends(i) ==
  /\ pc[i] = "call"
  /\ req' = [req EXCEPT ![i] = Append(@, svc)]
  /\ pc' = [pc EXCEPT ![i] = IF Len(req[i]) + 1 = MaxRequests THEN "done" ELSE "call"]
  /\ UNCHANGED <<db, svc, env, inv, cj, tx, hist, runs, pin, pout>>

\* PUT /api/settings stores another row
SettingsUpdated ==
  /\ \E row \in {SeedSettings, OpenAISettings} :
       /\ row # db.settings
       /\ db' = [db EXCEPT !.settings = row]
  /\ UNCHANGED <<svc, env, pc, inv, req, cj, tx, hist, runs, pin, pout>>

InitShared ==
  /\ env = EnvBoth
  /\ db = SeededDB
  /\ svc = NewOpenAIService(env)
  /\ pc = [i \in Invocations |-> "idle"]
  /\ inv = [i \in Invocations |-> [row |-> NoRow, written |-> 0]]
  /\ req = [i \in Invocations |-> <<>>]
  /\ cj = EmptyCJ
  /\ tx = NoTx
  /\ hist = EmptyHist
  /\ runs = 0
  /\ pin = <<>>
  /\ pout = <<>>

NextShared ==
  \/ \E i \in Invocations : RunPhaseOneBegins(i)
  \/ \E i \in Invocations : SettingsQueried(i)
  \/ \E i \in Invocations : ApplySettingsWrites(i)
  \/ \E i \in Invocations : callCompletionSends(i)
  \/ SettingsUpdated

SpecShared == InitShared /\ [][NextShared]_vars

----------------------------------------------------------------------------
(* AdminService.AddFact, UpdateFact and UpdateGap on the facts and gaps    *)
(* tables, beside the rows savePhaseOne commits                            *)

\* a *bool argument: nil, or a pointer to a value
NilBool == [set |-> FALSE, value |-> FALSE]
BoolPtr(value) == [set |-> TRUE, value |-> value]

\* the connection: the driver, and whether the DSN carries
\* clientFoundRows=true (mysqlURLToDSN passes the query of DATABASE_URL on
\* and adds only parseTime)
Connections ==
  { [driver |-> "postgres", clientFoundRows |-> FALSE],
    [driver |-> "mysql", clientFoundRows |-> FALSE],
    [driver |-> "mysql", clientFoundRows |-> TRUE] }

\* result.RowsAffected() of an UPDATE ... WHERE id = id: the rows matched on
\* postgres and with clientFoundRows, the rows changed on mysql otherwise
RowsAffected(conn, before, after, id) ==
  Cardinality({i \in DOMAIN before :
                 /\ before[i].id = id
                 /\ \/ conn.driver = "postgres"
                    \/ conn.clientFoundRows
                    \/ before[i] # after[i]})

\* AdminService.AddFact: the database after it, the id and the error
AddFact(d, conn, articleID, text, failing) ==
  LET cleanText == TrimSpace(text)
      newID == d.seq.facts + 1
  IN IF cleanText = <<>>
       THEN [db |-> d, id |-> 0, err |-> ErrFactTextRequired]
     ELSE IF conn.driver \notin {"postgres", "mysql"}
       THEN [db |-> d, id |-> 0, err |-> Err("unsupported database driver")]
     ELSE IF failing \/ \A i \in DOMAIN d.articles : d.articles[i].id # articleID
       THEN [db |-> d, id |-> 0, err |-> Err("database error")]
     ELSE [db |-> [d EXCEPT !.facts = Append(@, [FactRow(newID, articleID, cleanText)
                                                   EXCEPT !.source = "manual"]),
                            !.seq.facts = newID],
           id |-> newID, err |-> NoErr]

\* UPDATE facts SET ... WHERE id = factID
UpdateFacts(facts, factID, text, included, confirmed) ==
  [i \in DOMAIN facts |->
     IF facts[i].id # factID THEN facts[i]
     ELSE [facts[i] EXCEPT !.fact_text = IF text.set THEN TrimSpace(text.value) ELSE @,
                           !.is_included = IF included.set THEN included.value ELSE @,
                           !.is_confirmed = IF confirmed.set THEN confirmed.value ELSE @]]

\* AdminService.UpdateFact: the database after it and its error
UpdateFact(d, conn, factID, text, included, confirmed, failing) ==
  LET facts == UpdateFacts(d.facts, factID, text, included, confirmed)
  IN IF ~text.set /\ ~included.set /\ ~confirmed.set
       THEN [db |-> d, err |-> Err("no fact fields provided")]
     ELSE IF failing THEN [db |-> d, err |-> Err("database error")]
     ELSE [db |-> [d EXCEPT !.facts = facts],
           err |-> ensureRowsAffected(RowsAffected(conn, d.facts, facts, factID))]

\* UPDATE gaps SET ... WHERE id = gapID
UpdateGaps(gaps, gapID, text, selected, resolved) ==
  [i \in DOMAIN gaps |->
     IF gaps[i].id # gapID THEN gaps[i]
     ELSE [gaps[i] EXCEPT !.question = IF text.set THEN TrimSpace(text.value) ELSE @,
                          !.is_selected = IF selected.set THEN selected.value ELSE @,
                          !.is_resolved = IF resolved.set THEN resolved.value ELSE @]]

\* AdminService.UpdateGap: the database after it and its error
UpdateGap(d, conn, gapID, text, selected, resolved, failing) ==
  LET gaps == UpdateGaps(d.gaps, gapID, text, selected, resolved)
  IN IF ~text.set /\ ~selected.set /\ ~resolved.set
       THEN [db |-> d, err |-> Err("no gap fields provided")]
     ELSE IF failing THEN [db |-> d, err |-> Err("database error")]
     ELSE [db |-> [d EXCEPT !.gaps = gaps],
           err |-> ensureRowsAffected(RowsAffected(conn, d.gaps, gaps, gapID))]

\* the rows a successful savePhaseOne commits for one article
RECURSIVE InsertedFacts(_, _, _)
InsertedFacts(items, articleID, lastID) ==
  IF items = <<>> THEN <<>>
  ELSE <<FactRow(lastID + 1, articleID, Head(items))>>
         \o InsertedFacts(Tail(items), articleID, lastID + 1)

RECURSIVE InsertedGaps(_, _, _)
InsertedGaps(items, articleID, lastID) ==
  IF items = <<>> THEN <<>>
  ELSE <<GapRow(lastID + 1, articleID, Head(items))>>
         \o InsertedGaps(Tail(items), articleID, lastID + 1)

savePhaseOneCommitted(d, rawText, articleText, facts, gaps) ==
  LET articleID == d.seq.articles + 1
      cleanFacts == CleanItems(facts)
      cleanGaps == CleanItems(gaps)
  IN [d EXCEPT !.articles = Append(@, ArticleRow(articleID, <<>>, rawText, articleText, 0)),
               !.facts = @ \o InsertedFacts(cleanFacts, articleID, d.seq.facts),
               !.gaps = @ \o InsertedGaps(cleanGaps, articleID, d.seq.gaps),
               !.seq = [@ EXCEPT !.articles = articleID,
                                 !.facts = @ + Len(cleanFacts),
                                 !.gaps = @ + Len(cleanGaps)]]

RowIDs == {1, 2}
TextArgs == {NilString, StringPtr(<<"b">>), StringPtr(<<SP, "c">>), StringPtr(<<SP>>)}
IncludedArgs == {NilBool, BoolPtr(FALSE)}
ConfirmedArgs == {NilBool, BoolPtr(TRUE)}
FactTexts == {<<"d", SP>>, <<SP>>, <<>>}
SavedLists == {<<>>, <<<<"e">>, <<SP>>, <<SP, "f">>>>}

\* the server connected through conn (kept in pc) to a database earlier
\* requests may have written to
InitFacts ==
  /\ db \in {SeededDB, EarlierDB}
  /\ pc \in Connections
  /\ hist = [EmptyHist EXCEPT !.db0 = Rows(db)]
  /\ pin = <<>>
  /\ pout = <<>>
  /\ runs = 0
  /\ env = EnvGroq
  /\ svc = NewOpenAIService(env)
  /\ inv = EmptyInv
  /\ req = NoReq
  /\ cj = EmptyCJ
  /\ tx = NoTx

\* the part of a call of the admin API every call shares
AdminCalled(name, args, result) ==
  /\ db' = result.db
  /\ pout' = result.err
  /\ pin' = [call |-> name, args |-> args]
  /\ hist' = [hist EXCEPT !.db0 = Rows(db)]
  /\ runs' = runs + 1
  /\ UNCHANGED <<svc, env, pc, inv, req, cj, tx>>

AddFactCalled ==
  /\ runs < MaxCalls
  /\ \E articleID \in RowIDs, text \in FactTexts, failing \in BOOLEAN :
       AdminCalled("AddFact", <<articleID, text>>, AddFact(db, pc, articleID, text, failing))

UpdateFactCalled ==
  /\ runs < MaxCalls
  /\ \E factID \in RowIDs, text \in TextArgs, included \in IncludedArgs,
        confirmed \in ConfirmedArgs, failing \in BOOLEAN :
       AdminCalled("UpdateFact", <<factID, text, included, confirmed>>,
                   UpdateFact(db, pc, factID, text, included, confirmed, failing))

UpdateGapCalled ==
  /\ runs < MaxCalls
  /\ \E gapID \in RowIDs, text \in TextArgs, selected \in IncludedArgs,
        resolved \in ConfirmedArgs, failing \in BOOLEAN :
       AdminCalled("UpdateGap", <<gapID, text, selected, resolved>>,
                   UpdateGap(db, pc, gapID, text, selected, resolved, failing))

\* a RunPhaseOne invocation commits its rows
PhaseOneSaved ==
  /\ runs < MaxCalls
  /\ \E facts \in SavedLists, gaps \in SavedLists :
       AdminCalled("RunPhaseOne", <<facts, gaps>>,
                   [db |-> savePhaseOneCommitted(db, TxtShort, <<"t">>, facts, gaps),
                    err |-> NoErr])

NextFacts == AddFactCalled \/ UpdateFactCalled \/ UpdateGapCalled \/ PhaseOneSaved

SpecFacts == InitFacts /\ [][NextFacts]_vars

----------------------------------------------------------------------------
(* the handlers of the admin controller: one request, answered             *)

MaxHandled == 1

\* the answer of a handler: its success status, or respondWithError
Handled(name, args, result, success) ==
  /\ db' = result.db
  /\ pout' = [err |-> result.err,
              answer |-> IF result.err = NoErr THEN [status |-> success, error |-> <<>>]
                         ELSE respondWithError(result.err)]
  /\ pin' = [call |-> name, args |-> args]
  /\ hist' = [hist EXCEPT !.db0 = Rows(db)]
  /\ runs' = runs + 1
  /\ UNCHANGED <<svc, env, pc, inv, req, cj, tx>>

\* POST /api/analyses/:id/facts
AddFactHandled ==
  /\ runs < MaxHandled
  /\ \E articleID \in RowIDs, text \in FactTexts, failing \in BOOLEAN :
       Handled("AddFact", <<articleID, text>>, AddFact(db, pc, articleID, text, failing), 201)

\* PATCH /api/facts/:id
UpdateFactHandled ==
  /\ runs < MaxHandled
  /\ \E factID \in RowIDs, text \in TextArgs, included \in IncludedArgs,
        confirmed \in ConfirmedArgs, failing \in BOOLEAN :
       Handled("UpdateFact", <<factID, text, included, confirmed>>,
               UpdateFact(db, pc, factID, text, included, confirmed, failing), 200)

\* PATCH /api/gaps/:id
UpdateGapHandled ==
  /\ runs < MaxHandled
  /\ \E gapID \in RowIDs, text \in TextArgs, selected \in IncludedArgs,
        resolved \in ConfirmedArgs, failing \in BOOLEAN :
       Handled("UpdateGap", <<gapID, text, selected, resolved>>,
               UpdateGap(db, pc, gapID, text, selected, resolved, failing), 200)

\* PATCH /api/analyses/:id: UpdateAnalysis, then GetAnalysisDetail for the
\* answer, which reads only
UpdateAnalysisHandled ==
  /\ runs < MaxHandled
  /\ \E articleID \in ArticleIDs, status \in StatusArgs, category \in CategoryArgs,
        failing \in Failings \cup {"detail"} :
       LET updated == UpdateAnalysis(db, articleID, status, category, failing)
       IN Handled("UpdateAnalysis", <<articleID, status, category>>,
                  IF updated.err = NoErr /\ failing = "detail"
                    THEN [db |-> updated.db, err |-> Err("database error")]
                  ELSE updated, 200)

\* PUT /api/settings: UpdateSettings, then GetSettings for the answer
UpdateSettingsAnswered ==
  /\ runs < MaxHandled
  /\ \E providerKey \in UpdateProviders, modelKey \in UpdateModels, dbOk \in BOOLEAN,
        readOk \in BOOLEAN :
       LET updated == UpdateSettings(db, pc.driver, providerKey, modelKey, dbOk)
       IN Handled("UpdateSettings", <<providerKey, modelKey>>,
                  IF updated.err = NoErr
                    THEN [db |-> updated.db, err |-> GetSettings(updated.db, readOk).err]
                  ELSE updated, 200)

NextAdmin ==
  \/ AddFactHandled
  \/ UpdateFactHandled
  \/ UpdateGapHandled
  \/ UpdateAnalysisHandled
  \/ UpdateSettingsAnswered

SpecAdmin == InitFacts /\ [][NextAdmin]_vars

----------------------------------------------------------------------------
(* the fallback field scan called twice on one object text                 *)

MaxScans == 2

ScanKeys == {<<"facts">>, <<"Facts">>, <<"FACTS">>, <<SP, "facts">>, <<"gaps">>}

\* the texts of a list of one string, of a string and of an empty list
ScanValues ==
  { <<"[">> \o S("a") \o <<"]">>, <<"[">> \o S("b") \o <<"]">>, S("x"), S("y"), <<"[", "]">> }

MemberText(key, value) == <<Q>> \o key \o <<Q, ":">> \o value

\* the object texts of one and of two members
ScanObjects ==
  { <<"{">> \o MemberText(k, v) \o <<"}">> : k \in ScanKeys, v \in ScanValues }
    \cup { <<"{">> \o MemberText(k[1], v[1]) \o <<",">> \o MemberText(k[2], v[2]) \o <<"}">> :
             k \in ScanKeys \X ScanKeys, v \in ScanValues \X ScanValues }

InitScan ==
  /\ \E rawJSON \in ScanObjects, fn \in {"parseFirstStringArrayField", "parseFirstStringField"} :
       pin = [rawJSON |-> rawJSON, preferredKey |-> <<"facts">>, fn |-> fn]
  /\ pout = <<>>
  /\ pc = "scan"
  /\ env = EnvGroq
  /\ db = SeededDB
  /\ svc = NewOpenAIService(env)
  /\ inv = EmptyInv
  /\ req = NoReq
  /\ cj = EmptyCJ
  /\ tx = NoTx
  /\ hist = EmptyHist
  /\ runs = 0

\* one more call; pout: the values returned so far
Scanned(values) ==
  /\ Len(pout) < MaxScans
  /\ \E value \in values : pout' = Append(pout, value)
  /\ UNCHANGED <<db, svc, env, pc, inv, req, cj, tx, hist, runs, pin>>

ArrayFieldScanned ==
  /\ pc = "scan" /\ pin.fn = "parseFirstStringArrayField"
  /\ Scanned(parseFirstStringArrayField(pin.rawJSON, pin.preferredKey))

StringFieldScanned ==
  /\ pc = "scan" /\ pin.fn = "parseFirstStringField"
  /\ Scanned(parseFirstStringField(pin.rawJSON, pin.preferredKey))

SpecScan == InitScan /\ [][ArrayFieldScanned \/ StringFieldScanned]_vars

----------------------------------------------------------------------------
(* concurrent requests naming a category: UpdateAnalysis reaches           *)
(* getOrCreateTopic on the connection pool, RunPhaseOne reaches            *)
(* resolveTopicID inside the transaction of savePhaseOne. Here pc, inv and *)
(* tx are functions of the caller, tx[i] the topic rows caller i has        *)
(* inserted and not committed, and pin holds the driver. Statements of the  *)
(* database that fail for other reasons than its constraints are left out. *)

Callers == {1, 2}

TopicCalls == {"UpdateAnalysis", "RunPhaseOne"}

Categories == {<<"Weather">>, <<SP, "weather">>, <<"sports">>}

NoTopicCall == [call |-> "none", category |-> <<>>, topicID |-> 0, err |-> NoErr]

\* what the UNIQUE index on topics.name compares: the name itself in a
\* postgres TEXT column, the name ignoring case in a mysql VARCHAR column
\* with its default collation
UniqueKey(driver, name) == IF driver = "postgres" THEN name ELSE ToLower(name)

\* SELECT id FROM topics WHERE LOWER(name) = LOWER(category): the rows found
TopicsFound(rows, category) ==
  {i \in DOMAIN rows : ToLower(rows[i].name) = ToLower(category)}

InitTopics ==
  /\ pin \in [driver : Drivers]
  /\ db = SeededDB
  /\ pc = [i \in Callers |-> "idle"]
  /\ inv = [i \in Callers |-> NoTopicCall]
  /\ tx = [i \in Callers |-> <<>>]
  /\ env = EnvGroq
  /\ svc = NewOpenAIService(env)
  /\ req = NoReq
  /\ cj = EmptyCJ
  /\ hist = EmptyHist
  /\ runs = 0
  /\ pout = <<>>

\* caller i enters getOrCreateTopic or resolveTopicID with a category
TopicCallBegins(i) ==
  /\ pc[i] = "idle"
  /\ \E call \in TopicCalls, category \in Categories :
       inv' = [inv EXCEPT ![i] = [NoTopicCall EXCEPT !.call = call,
                                                    !.category = TrimSpace(category)]]
  /\ pc' = [pc EXCEPT ![i] = "select"]
  /\ UNCHANGED <<db, svc, env, req, cj, tx, hist, runs, pin, pout>>

\* the SELECT of caller i returns: the first one, or the one after an
\* INSERT that gave no id
TopicSelected(i) ==
  /\ pc[i] \in {"select", "reselect"}
  /\ LET visible == db.topics \o tx[i]
         found == TopicsFound(visible, inv[i].category)
     IN IF found # {}
        THEN /\ \E r \in found : inv' = [inv EXCEPT ![i].topicID = visible[r].id]
             /\ pc' = [pc EXCEPT ![i] = IF inv[i].call = "RunPhaseOne" THEN "commit" ELSE "done"]
        ELSE IF pc[i] = "select"
        THEN /\ inv' = inv
             /\ pc' = [pc EXCEPT ![i] = "insert"]
        ELSE /\ inv' = [inv EXCEPT ![i].err = ErrNoRows]
             /\ pc' = [pc EXCEPT ![i] = "done"]
  /\ UNCHANGED <<db, svc, env, req, cj, tx, hist, runs, pin, pout>>

\* the INSERT of caller i is executed; it waits while another transaction
\* holds an uncommitted row with the same unique key
TopicInserted(i) ==
  /\ pc[i] = "insert"
  /\ LET key == UniqueKey(pin.driver, inv[i].category)
         conflict == \E r \in DOMAIN db.topics : UniqueKey(pin.driver, db.topics[r].name) = key
         newID == db.seq.topics + 1
         row == [id |-> newID, name |-> inv[i].category]
     IN /\ \A j \in Callers \ {i} : \A r \in DOMAIN tx[j] :
             UniqueKey(pin.driver, tx[j][r].name) # key
        /\ IF inv[i].call = "UpdateAnalysis"
           THEN /\ tx' = tx
                /\ db' = [db EXCEPT !.seq.topics = newID,
                                    !.topics = IF conflict THEN @ ELSE Append(@, row)]
                /\ IF pin.driver = "postgres" /\ ~conflict
                   THEN /\ inv' = [inv EXCEPT ![i].topicID = newID]
                        /\ pc' = [pc EXCEPT ![i] = "done"]
                   ELSE /\ inv' = inv
                        /\ pc' = [pc EXCEPT ![i] = "reselect"]
           ELSE /\ db' = [db EXCEPT !.seq.topics = newID]
                /\ IF conflict
                   THEN /\ tx' = [tx EXCEPT ![i] = <<>>]
                        /\ inv' = [inv EXCEPT ![i].err = Err("database error")]
                        /\ pc' = [pc EXCEPT ![i] = "done"]
                   ELSE /\ tx' = [tx EXCEPT ![i] = Append(@, row)]
                        /\ inv' = [inv EXCEPT ![i].topicID = newID]
                        /\ pc' = [pc EXCEPT ![i] = "commit"]
  /\ UNCHANGED <<svc, env, req, cj, hist, runs, pin, pout>>

\* savePhaseOne of caller i goes on to tx.Commit, or fails before and rolls
\* back
TopicCommitted(i) ==
  /\ pc[i] = "commit"
  /\ \E committed \in BOOLEAN :
       IF committed
       THEN /\ db' = [db EXCEPT !.topics = @ \o tx[i]]
            /\ inv' = inv
       ELSE /\ db' = db
            /\ inv' = [inv EXCEPT ![i].err = Err("database error")]
  /\ tx' = [tx EXCEPT ![i] = <<>>]
  /\ pc' = [pc EXCEPT ![i] = "done"]
  /\ UNCHANGED <<svc, env, req, cj, hist, runs, pin, pout>>

NextTopics ==
  \/ \E i \in Callers : TopicCallBegins(i)
  \/ \E i \in Callers : TopicSelected(i)
  \/ \E i \in Callers : TopicInserted(i)
  \/ \E i \in Callers : TopicCommitted(i)

SpecTopics == InitTopics /\ [][NextTopics]_vars

----------------------------------------------------------------------------
(* GET /api/dashboard beside the requests that write articles:             *)
(* GetDashboard counts with one query after the other on the connection    *)
(* pool, and other requests are served between its queries. pc is the      *)
(* position of GetDashboard, pout its counts, hist.resp the error of the   *)
(* last writing call.                                                      *)

NoCounts == [total |-> 0, pending |-> 0, saved |-> 0]

\* SELECT COUNT(*) FROM articles WHERE LOWER(COALESCE(status, 'draft')) = status
CountStatus(d, status) ==
  Cardinality({i \in DOMAIN d.articles : ToLower(<<d.articles[i].status>>) = <<status>>})

InitDashboard ==
  /\ db \in {SeededDB, EarlierDB}
  /\ pc = "idle"
  /\ pout = NoCounts
  /\ pin = <<>>
  /\ hist = [EmptyHist EXCEPT !.db0 = Rows(db)]
  /\ runs = 0
  /\ env = EnvGroq
  /\ svc = NewOpenAIService(env)
  /\ inv = EmptyInv
  /\ req = NoReq
  /\ cj = EmptyCJ
  /\ tx = NoTx

\* SELECT COUNT(*) FROM articles
DashboardTotalCounted ==
  /\ pc \in {"idle", "done"}
  /\ pout' = [NoCounts EXCEPT !.total = Len(db.articles)]
  /\ pc' = "total"
  /\ UNCHANGED <<db, svc, env, inv, req, cj, tx, hist, runs, pin>>

DashboardPendingCounted ==
  /\ pc = "total"
  /\ pout' = [pout EXCEPT !.pending = CountStatus(db, "pending")]
  /\ pc' = "pending"
  /\ UNCHANGED <<db, svc, env, inv, req, cj, tx, hist, runs, pin>>

\* the count of completed articles; factUsage and ListAnalyses, which
\* follow, add nothing to the three counts
DashboardSavedCounted ==
  /\ pc = "pending"
  /\ pout' = [pout EXCEPT !.saved = CountStatus(db, "completed")]
  /\ pc' = "done"
  /\ UNCHANGED <<db, svc, env, inv, req, cj, tx, hist, runs, pin>>

\* a writing call between two queries of GetDashboard
Written(name, args, result) ==
  /\ db' = result.db
  /\ pin' = [call |-> name, args |-> args]
  /\ hist' = [hist EXCEPT !.db0 = Rows(db), !.resp = result.err]
  /\ runs' = runs + 1
  /\ UNCHANGED <<svc, env, pc, inv, req, cj, tx, pout>>

\* a RunPhaseOne invocation commits its article
ArticleSaved ==
  /\ runs < MaxCalls
  /\ Written("RunPhaseOne", <<>>,
             [db |-> savePhaseOneCommitted(db, TxtShort, <<"t">>, <<<<"e">>>>, <<>>),
              err |-> NoErr])

StatusUpdated ==
  /\ runs < MaxCalls
  /\ \E articleID \in ArticleIDs, status \in StatusArgs, failing \in {"none", "update"} :
       Written("UpdateAnalysis", <<articleID, status>>,
               UpdateAnalysis(db, articleID, status, NilString, failing))

NextDashboard ==
  \/ DashboardTotalCounted
  \/ DashboardPendingCounted
  \/ DashboardSavedCounted
  \/ ArticleSaved
  \/ StatusUpdated

SpecDashboard == InitDashboard /\ [][NextDashboard]_vars

----------------------------------------------------------------------------
(* the selection of provider and model on one deployment: UpdateSettings,  *)
(* GetSettings and the start of RunPhaseOne, one request after the other.  *)
(* pc holds the connection; hist.before the row before the last            *)
(* UpdateSettings, hist.err its error, hist.chosen the row the last        *)
(* successful one chose.                                                   *)

InitSelection ==
  /\ db = SeededDB
  /\ pc \in Connections
  /\ env \in {EnvGroq, EnvBoth}
  /\ svc = NewOpenAIService(env)
  /\ hist = [chosen |-> NoChoice, before |-> db.settings, err |-> NoErr]
  /\ pin = <<>>
  /\ pout = <<>>
  /\ req = NoReq
  /\ inv = EmptyInv
  /\ cj = EmptyCJ
  /\ tx = NoTx
  /\ runs = 0

SettingsChosen ==
  /\ \E providerKey \in UpdateProviders, modelKey \in UpdateModels, dbOk \in BOOLEAN :
       LET updated == UpdateSettings(db, pc.driver, providerKey, modelKey, dbOk)
       IN /\ db' = updated.db
          /\ pin' = [call |-> "UpdateSettings", providerKey |-> providerKey,
                     modelKey |-> modelKey]
          /\ hist' = [chosen |-> IF updated.err = NoErr
                                 THEN [provider_key |-> TrimSpace(providerKey),
                                       model_key |-> TrimSpace(modelKey)]
                                 ELSE hist.chosen,
                      before |-> db.settings, err |-> updated.err]
  /\ UNCHANGED <<svc, env, pc, inv, req, cj, tx, runs, pout>>

SettingsRead ==
  /\ \E dbOk \in BOOLEAN : pout' = GetSettings(db, dbOk)
  /\ pin' = [call |-> "GetSettings"]
  /\ UNCHANGED <<db, svc, env, pc, inv, req, cj, tx, hist, runs>>

\* RunPhaseOne from applyRuntimeAISettings to its first chat-completion
\* request, which leaves with the fields of the service (req), or does not
\* leave for want of a key or of the settings row
PhaseOneStarted ==
  /\ \E queryOk \in BOOLEAN :
       LET applied == ApplySettings(svc, env, db.settings.provider_key, db.settings.model_key)
       IN IF queryOk
          THEN /\ svc' = applied
               /\ req' = IF applied.apiKey = <<>> THEN NoReq ELSE applied
          ELSE /\ svc' = svc
               /\ req' = NoReq
  /\ pin' = [call |-> "RunPhaseOne"]
  /\ UNCHANGED <<db, env, pc, inv, cj, tx, hist, runs, pout>>

NextSelection == SettingsChosen \/ SettingsRead \/ PhaseOneStarted

SpecSelection == InitSelection /\ [][NextSelection]_vars

----------------------------------------------------------------------------
(* properties                                                              *)

IsPrefixOf(p, q) == Len(p) <= Len(q) /\ SubSeq(q, 1, Len(p)) = p

StageNames(calls) == [i \in DOMAIN calls |-> calls[i].fn]

OrderEnglish ==
  <<"ExtractFacts", "GenerateGapQuestions", "GenerateStructuredArticle", "savePhaseOne">>

OrderTranslated ==
  <<"ExtractFacts", "GenerateGapQuestions", "GenerateStructuredArticle",
    "TranslateList", "TranslateList", "TranslateText", "savePhaseOne">>

\* C1: the stages of an invocation are called in the order fact extraction,
\* gap generation, article generation, (the three translations,) save; each
\* stage after the first is called only when the stage before it returned
\* without an error, so that no stage is called after a failure; gap
\* generation is given the facts fact extraction returned, and article
\* generation those facts and the gaps gap generation returned.
C1_StageOrder ==
  LET calls == hist.calls
      rets == hist.rets
  IN /\ Len(calls) - Len(rets) \in {0, 1}
     /\ \A i \in DOMAIN rets : rets[i].fn = calls[i].fn
     /\ \A i \in DOMAIN calls : i > 1 => rets[i - 1].ok
     /\ \/ IsPrefixOf(StageNames(calls), OrderEnglish)
        \/ IsPrefixOf(StageNames(calls), OrderTranslated)
     /\ Len(calls) >= 2 => calls[2].a = rets[1].val
     /\ Len(calls) >= 3 => calls[3].a = rets[1].val /\ calls[3].b = rets[2].val

\* savePhaseOne has been called after six stages that all succeeded
C1_SaveAfterTranslation ==
  /\ Len(hist.calls) = 7
  /\ hist.calls[7].fn = "savePhaseOne"
  /\ Len(hist.calls[2].a) = 2

NewRows(now, before) == SubSeq(now, Len(before) + 1, Len(now))

\* C2: as long as the invocation has not returned success, and after it
\* returned an error, the rows a query sees are those from before the
\* invocation; once it returned success, the rows from before are still
\* there, there is exactly one new article row, it has the returned id and
\* status pending, and the new fact rows and gap rows are, in order, one per
\* returned fact and gap, each referencing the returned article id.
C2_AllOrNothing ==
  LET rows == Rows(db)
      before == hist.db0
      newArticles == NewRows(rows.articles, before.articles)
      newFacts == NewRows(rows.facts, before.facts)
      newGaps == NewRows(rows.gaps, before.gaps)
  IN IF pc = "done" /\ inv.ok
     THEN /\ IsPrefixOf(before.articles, rows.articles)
          /\ IsPrefixOf(before.facts, rows.facts)
          /\ IsPrefixOf(before.gaps, rows.gaps)
          /\ IsPrefixOf(before.topics, rows.topics)
          /\ Len(newArticles) = 1
          /\ newArticles[1].id = inv.articleID
          /\ newArticles[1].status = "pending"
          /\ \A i \in DOMAIN before.articles : before.articles[i].id # inv.articleID
          /\ Len(newFacts) = Len(inv.facts)
          /\ \A i \in DOMAIN newFacts :
               newFacts[i].article_id = inv.articleID /\ newFacts[i].fact_text = inv.facts[i]
          /\ Len(newGaps) = Len(inv.gaps)
          /\ \A i \in DOMAIN newGaps :
               newGaps[i].article_id = inv.articleID /\ newGaps[i].question = inv.gaps[i]
     ELSE rows = before

\* an invocation returned success with two facts to a database that held an
\* article already
C2_SavedBesideEarlier ==
  /\ pc = "done"
  /\ inv.ok
  /\ Len(inv.facts) = 2
  /\ hist.db0.articles # <<>>

\* a request that succeeded with content that does not normalise to JSON
Malformed(out) == out.kind = "ok" /\ ~normalizeJSONContent(out.msg).ok

\* a request of callJSONCompletion is outstanding
InJSONRequest == pc = "http" /\ req.step \in JSONSteps

\* callJSONCompletion returned in the step
CJReturns == hist'.cjret # hist.cjret /\ hist'.cjret.step # "none"

C3_State ==
  LET r == hist.cjret
      n == normalizeJSONContent(r.from.msg)
  IN /\ hist.nmal <= 1
     /\ (InJSONRequest /\ cj.pos = "jsonRetry") =>
          ~req.json /\ Malformed(hist.resp) /\ hist.nmal = 1
     /\ r.pos = "jsonRetry" =>
          /\ (r.from.kind = "ok" /\ n.ok) => (r.err = NoErr /\ r.json = n.json)
          /\ r.from.kind # "ok" => r.err = r.from
          /\ Malformed(r.from) => r.err = ErrInvalidJSON

C3_Step ==
  (InJSONRequest /\ cj.pos \in {"first", "errRetry"} /\ Malformed(hist'.resp)) =>
    /\ pc' = "http"
    /\ cj'.pos = "jsonRetry"
    /\ req'.step = req.step
    /\ req'.prompt = req.prompt
    /\ ~req'.json
    /\ hist'.nreq = hist.nreq + 1
    /\ ~CJReturns

\* C3: when a request of callJSONCompletion succeeds with content that does
\* not normalise to JSON, and no such retry was made yet, the next thing
\* callJSONCompletion does is one more request with the same step and
\* prompt and JSON-mode off; a call makes at most one such retry; after it
\* the call returns the normalised JSON of the retry's content if there is
\* one, the retry's error if it failed, and the error groq did not return
\* valid json if its content does not normalise either.
C3_MalformedRetriedOnce == [](C3_State) /\ [][C3_Step]_vars

\* a call returned the JSON of its retry after malformed content
C3_SecondResponseUsed == hist.cjret.pos = "jsonRetry" /\ hist.cjret.err = NoErr

\* the message mentions one of the marks of an unsupported JSON-mode
MentionsJSONMode(message) ==
  \E i \in DOMAIN message :
    LowerTok(message[i]) \in
      {"response_format", "json_object", "failed to generate json", "failed_generation"}

C4_State ==
  LET r == hist.cjret
      n == normalizeJSONContent(r.from.msg)
  IN /\ hist.nerr <= 1
     /\ (InJSONRequest /\ cj.pos = "errRetry") =>
          /\ ~req.json
          /\ hist.resp.kind = "api"
          /\ MentionsJSONMode(hist.resp.msg)
          /\ hist.nreq = 2
          /\ hist.njson = 1
     /\ r.pos = "errRetry" =>
          /\ r.from.kind # "ok" => r.err = r.from
          /\ (r.from.kind = "ok" /\ n.ok) => (r.err = NoErr /\ r.json = n.json)

C4_Step ==
  (InJSONRequest /\ hist'.resp.kind \in {"api", "err"}) =>
    IF cj.pos = "first" /\ req.json /\ hist'.resp.kind = "api"
       /\ MentionsJSONMode(hist'.resp.msg)
    THEN /\ pc' = "http"
         /\ cj'.pos = "errRetry"
         /\ req'.step = req.step
         /\ req'.prompt = req.prompt
         /\ ~req'.json
         /\ ~CJReturns
    ELSE /\ CJReturns
         /\ hist'.cjret.err = hist'.resp
         /\ hist'.cjret.from = hist'.resp
         /\ hist'.cjret.pos = cj.pos
         /\ hist'.cjret.step = req.step
         /\ hist'.cjret.call = hist.cjcalls
         /\ hist'.nerr = IF pc' = "http" THEN 0 ELSE hist.nerr

\* C4: when the first request of a call was sent with JSON-mode and fails
\* with an API error whose message mentions response_format, json_object,
\* failed to generate json or failed_generation, the next thing the call
\* does is one request with the same step and prompt and JSON-mode off, at
\* most once per call, and what that request gives is what the call goes on
\* with (its error is returned, its content is normalised); any other error
\* of a request is what the call returns, with no retry.
C4_JSONModeErrorRetriedOnce == [](C4_State) /\ [][C4_Step]_vars

\* a call returned the JSON of its retry after a JSON-mode error
C4_RetryOutcomeUsed == hist.cjret.pos = "errRetry" /\ hist.cjret.err = NoErr

Larger(a, b) == IF a >= b THEN a ELSE b

C5_State == cj.attempt <= 4 /\ hist.cjcalls <= 4

C5_Step ==
  LET e == hist'.cjret.err
      old == cj.currentInput
      n == RuneLen(old)
      new == cj'.currentInput
  IN (pc = "http" /\ req.step = "extract-facts" /\ CJReturns /\ e # NoErr) =>
       IF isRequestTooLargeError(e) /\ n > 900 /\ cj.attempt < 4
       THEN /\ pc' = "http"
            /\ req'.step = "extract-facts"
            /\ cj'.pos = "first"
            /\ cj'.attempt = cj.attempt + 1
            /\ hist'.cjcalls = hist.cjcalls + 1
            /\ RuneLen(new) < n
            /\ RunePrefix(old, RuneLen(new)) = new
            /\ new = TrimSpaceText(RunePrefix(old, Larger(900, (n * 72) \div 100)))
            /\ req'.prompt.text = new
       ELSE /\ pc' = "done"
            /\ ~inv'.ok
            /\ inv'.err = e

\* C5: ExtractFacts makes at most 4 attempts.  When callJSONCompletion
\* returns an error in an attempt: if the error is a request-too-large API
\* error, the input has more than 900 runes and the attempt is not the 4th,
\* the next attempt is made with a strictly shorter prefix of the input, the
\* first max(900, 72%) runes of it, trimmed; in every other case (another
\* error, an input of 900 runes or fewer, the 4th attempt) ExtractFacts
\* returns that error and makes no further attempt.
C5_ShrinkOnTooLarge == [](C5_State) /\ [][C5_Step]_vars

\* the 4th attempt was too large as well
C5_FourthAttemptTooLarge ==
  pc = "done" /\ hist.cjcalls = 4 /\ isRequestTooLargeError(inv.err)

C6_State ==
  LET n == Len(hist.calls)
      fn == hist.calls[n].fn
  IN /\ hist.nreq <= 3
     /\ hist.njson <= 1
     /\ (pc = "http" /\ req.json) => (req.step \in JSONSteps /\ cj.pos = "first")
     /\ n > 0 =>
          CASE fn = "ExtractFacts" -> hist.cjcalls <= 4 /\ hist.trreq = 0
            [] fn \in {"GenerateGapQuestions", "GenerateStructuredArticle"} ->
                 hist.cjcalls <= 1 /\ hist.trreq = 0
            [] fn = "TranslateList" ->
                 hist.cjcalls = 0 /\ hist.trreq <= 1 + Len(hist.calls[n].a)
            [] fn = "TranslateText" -> hist.cjcalls = 0 /\ hist.trreq <= 1
            [] OTHER -> hist.cjcalls = 0 /\ hist.trreq = 0

\* how far the invocation has got: the stage it is in, and within the stage
\* the requests made for it so far
Progress ==
  LET stage == CASE pc = "idle" -> 0
                 [] pc = "settings" -> 1
                 [] pc = "fetch" -> 2
                 [] pc = "http" -> 2 + Len(hist.calls)
                 [] pc = "begin" -> 10
                 [] pc = "topic" -> 11
                 [] pc = "article" -> 12
                 [] pc = "facts" -> 13
                 [] pc = "gaps" -> 14
                 [] pc = "commit" -> 15
                 [] OTHER -> 16
      made == IF pc # "http" THEN 0
              ELSE IF req.step \in JSONSteps THEN 3 * (hist.cjcalls - 1) + hist.nreq
              ELSE hist.trreq
  IN 16 * stage + made

C6_Step == (pc \notin {"idle", "done"}) => Progress' > Progress

\* C6: one callJSONCompletion makes at most 3 requests, and only its first
\* can carry JSON-mode; ExtractFacts calls callJSONCompletion at most 4
\* times, gap and article generation at most once; TranslateList makes at
\* most 1 + n requests for n items and TranslateText at most one; and every
\* return of an outstanding call takes the invocation strictly further
\* along a scale that ends, at its return, at 256: whatever the API answers,
\* the invocation returns after a bounded number of requests.
C6_BoundedRequests ==
  [](C6_State /\ (pc = "done" <=> Progress = 256) /\ Progress <= 256) /\ [][C6_Step]_vars

\* a call of callJSONCompletion made three requests
C6_ThreeRequests == hist.nreq = 3 /\ hist.njson = 1

\* the part of the text from i to j is a well-formed JSON object
ObjectAt(text, i, j) ==
  /\ text[i] = "{"
  /\ text[j] = "}"
  /\ ParseJSON(SubSeq(text, i, j)).ok

ObjectStarts(text) ==
  {i \in DOMAIN text : \E j \in i..Len(text) : ObjectAt(text, i, j)}

\* the first well-formed JSON object in a text that holds one
FirstObject(text) ==
  LET i == CHOOSE a \in ObjectStarts(text) : \A b \in ObjectStarts(text) : a <= b
      j == CHOOSE b \in i..Len(text) : ObjectAt(text, i, b)
  IN SubSeq(text, i, j)

\* C7: for a text that, its code fence stripped, is not JSON as a whole but
\* holds a well-formed JSON object, normalizeJSONContent returns ok with the
\* first such object; it returns not-ok only for a text that holds no
\* well-formed JSON object and is not JSON as a whole.
C7_FirstObjectExtracted ==
  LET text == stripCodeFence(pin) IN
  pc = "json-done" =>
    /\ (ObjectStarts(text) # {} /\ ~JSONValid(text)) =>
         (pout.ok /\ pout.json = FirstObject(text))
    /\ ~pout.ok => (ObjectStarts(text) = {} /\ ~JSONValid(text))

\* the list the claimed scan recovers from a value: the non-blank strings of
\* an array, nothing from a value of another shape
ScannedList(value) ==
  IF value.t # "arr" THEN <<>>
  ELSE DropEmpty([i \in DOMAIN value.val |->
                    IF value.val[i].t = "str" THEN TrimSpace(value.val[i].val) ELSE <<>>])

\* the lists the claimed scan of the object can recover for the field
ScanRecovers(payload, field) ==
  LET alike == {k \in payload.keys : ToLower(TrimSpace(k)) = field}
  IN IF alike # {} THEN {ScannedList(payload.val[k]) : k \in alike} \ {<<>>}
     ELSE IF Cardinality(payload.keys) = 1
       THEN {ScannedList(payload.val[k]) : k \in payload.keys} \ {<<>>}
     ELSE {}

\* C8, for ExtractFacts: when callJSONCompletion returned a JSON object in
\* which the key facts is absent, or holds an empty array or null, then
\* ExtractFacts returns a list the scan of the object's fields recovers (a
\* key equal to facts ignoring case and surrounding white space, otherwise
\* the only key; arrays only; elements that are not non-blank strings
\* dropped), and if the scan recovers nothing it fails with groq returned
\* empty facts.
C8_FactsRecoveredByScan ==
  LET r == hist.cjret
      payload == parseJSONObject(r.json)
      absent == <<"facts">> \notin payload.keys
      empty == ~absent /\ (IsNull(payload.val[<<"facts">>])
                           \/ payload.val[<<"facts">>] = JArr(<<>>))
      recovered == ScanRecovers(payload, <<"facts">>)
  IN (r.step = "extract-facts" /\ r.err = NoErr /\ payload.ok /\ payload.keys # {}
      /\ (absent \/ empty)) =>
       /\ Len(hist.rets) >= 1
       /\ IF recovered = {}
          THEN ~hist.rets[1].ok /\ inv.err = Err("groq returned empty facts")
          ELSE hist.rets[1].ok /\ hist.rets[1].val \in {dedupeAndTrim(l) : l \in recovered}

IsGeneration(fn) ==
  fn \in {"ExtractFacts", "GenerateGapQuestions", "GenerateStructuredArticle"}

IsTranslation(fn) == fn \in {"TranslateList", "TranslateText"}

\* C9: when the output language is Telugu the three generation stages are
\* called with English; a translation is called only when the output
\* language is Telugu and article generation has succeeded, and the calls
\* are TranslateList of the extracted facts, TranslateList of the generated
\* gaps and TranslateText of the generated article, in that order, into
\* Telugu; what is saved and returned then is what they returned; when the
\* output language is English no translation is called and no translation
\* request is made.
C9_TranslationAfterGeneration ==
  LET calls == hist.calls
      rets == hist.rets
      telugu == inv.outputLanguage = <<"Telugu">>
  IN /\ \A i \in DOMAIN calls :
          /\ (telugu /\ IsGeneration(calls[i].fn)) => calls[i].lang = <<"English">>
          /\ IsTranslation(calls[i].fn) =>
               /\ telugu
               /\ i \in 4..6
               /\ rets[3].fn = "GenerateStructuredArticle" /\ rets[3].ok
               /\ calls[i].fn = (IF i = 6 THEN "TranslateText" ELSE "TranslateList")
               /\ calls[i].a = rets[i - 3].val
               /\ calls[i].lang = <<"Telugu">>
          /\ (telugu /\ calls[i].fn = "savePhaseOne") =>
               /\ i = 7
               /\ calls[i].a = rets[4].val
               /\ calls[i].b = rets[5].val
               /\ calls[i].lang = rets[6].val
     /\ (telugu /\ pc = "done" /\ inv.ok) =>
          /\ inv.facts = rets[4].val
          /\ inv.gaps = rets[5].val
          /\ inv.articleText = rets[6].val
     /\ inv.outputLanguage = <<"English">> =>
          /\ \A i \in DOMAIN calls : ~IsTranslation(calls[i].fn)
          /\ hist.trreq = 0
          /\ pc = "http" => req.step \in JSONSteps

\* a Telugu invocation returned translated facts
C9_TranslatedReturned ==
  /\ pc = "done"
  /\ inv.ok
  /\ inv.outputLanguage = <<"Telugu">>
  /\ inv.facts # hist.rets[1].val

C11_NoJSONModeForGroq ==
  pc = "http" =>
    /\ req.baseURL = svc.baseURL
    /\ req.json =>
         /\ svc.provider # <<"groq">>
         /\ ~Contains(ToLower(svc.baseURL), "groq")
         /\ cj.pos = "first"
         /\ req.step \notin {"translate-list", "translate-article"}
    /\ cj.pos \in {"errRetry", "jsonRetry"} => ~req.json

\* after a switch to openai a JSON-mode request was refused and retried
C11_RetriedWithoutJSONMode ==
  /\ pc = "http"
  /\ svc.provider = <<"openai">>
  /\ cj.pos = "errRetry"
  /\ hist.njson = 1
  /\ ~req.json

FoldKey(item) == ToLower(TrimSpace(item))

\* every element trimmed and non-empty, no two equal ignoring case
CleanList(list) ==
  /\ \A i \in DOMAIN list : list[i] = TrimSpace(list[i]) /\ list[i] # <<>>
  /\ \A i, j \in DOMAIN list : i # j => ToLower(list[i]) # ToLower(list[j])

\* the place of the first element of `values` that equals `item` ignoring
\* case and surrounding white space
FirstPlace(values, item) ==
  CHOOSE i \in DOMAIN values :
    /\ FoldKey(values[i]) = FoldKey(item)
    /\ \A j \in 1..(i - 1) : FoldKey(values[j]) # FoldKey(item)

\* list holds, in the order of their first occurrence in values, the first
\* spellings (trimmed) of the non-blank elements of values
FirstOccurrences(values, list) ==
  /\ \A i \in DOMAIN list :
       /\ \E j \in DOMAIN values : FoldKey(values[j]) = FoldKey(list[i])
       /\ list[i] = TrimSpace(values[FirstPlace(values, list[i])])
  /\ \A i, j \in DOMAIN list :
       i < j => FirstPlace(values, list[i]) < FirstPlace(values, list[j])
  /\ \A j \in DOMAIN values :
       TrimSpace(values[j]) # <<>> => \E i \in DOMAIN list : FoldKey(list[i]) = FoldKey(values[j])

\* C12: the list dedupeAndTrim returns (TranslateList returns it for the
\* language English) holds only trimmed, non-empty elements, no two equal
\* ignoring case, and they are the first spellings of the input's non-blank
\* elements in the order of their first occurrence; dedupeAndTrim leaves it
\* as it is.  A list a successful ExtractFacts or GenerateGapQuestions
\* returns is such a list and is not empty.
C12_DedupedLists ==
  \A i \in DOMAIN hist.rets :
    LET call == hist.calls[i]
        ret == hist.rets[i]
    IN /\ (ret.fn = "TranslateList" /\ ret.ok
           /\ EqualFold(TrimSpace(call.lang), <<"English">>)) =>
            /\ CleanList(ret.val)
            /\ FirstOccurrences(call.a, ret.val)
            /\ dedupeAndTrim(ret.val) = ret.val
       /\ (ret.fn \in {"ExtractFacts", "GenerateGapQuestions"} /\ ret.ok) =>
            /\ ret.val # <<>>
            /\ CleanList(ret.val)
            /\ dedupeAndTrim(ret.val) = ret.val

\* a list with a second spelling of its first element
C12_SecondSpellingDropped ==
  /\ pc = "TranslateList returned"
  /\ hist.calls[1].a = << <<"A">>, <<"a">>, <<"b", SP>> >>
  /\ hist.rets[1].val = << <<"A">>, <<"b">> >>

\* the lists a stage can take from the JSON object it was given: the value
\* of its field, or what the scan of the fields finds
ListsIn(json, key) ==
  IF Len(UnmarshalListField(json, key).val) = 0 THEN parseFirstStringArrayField(json, key)
  ELSE {UnmarshalListField(json, key).val}

FirstItems(list, n) == SubSeq(list, 1, IF Len(list) < n THEN Len(list) ELSE n)

\* C13: a successful GenerateHeadlineOptions returns between 1 and 5
\* headlines and a successful GenerateStraplineOptions between 1 and 4
\* straplines, the first items in order of the deduplicated list of the
\* response; limitListItems returns its input when that has at most max
\* items or max <= 0, and its first max items otherwise.
C13_TruncatedAfterDedupe ==
  /\ \A i \in DOMAIN hist.rets :
       LET ret == hist.rets[i] IN
       /\ (ret.fn = "GenerateHeadlineOptions" /\ ret.ok) =>
            /\ Len(ret.val) \in 1..5
            /\ \E l \in ListsIn(hist.cjret.json, <<"headlines">>) :
                 ret.val = FirstItems(dedupeAndTrim(l), 5)
       /\ (ret.fn = "GenerateStraplineOptions" /\ ret.ok) =>
            /\ Len(ret.val) \in 1..4
            /\ \E l \in ListsIn(hist.cjret.json, <<"straplines">>) :
                 ret.val = FirstItems(dedupeAndTrim(l), 4)
  /\ pout # <<>> =>
       /\ (pout.max <= 0 \/ Len(pout.values) <= pout.max) => pout.limited = pout.values
       /\ (pout.max > 0 /\ Len(pout.values) > pout.max) =>
            pout.limited = SubSeq(pout.values, 1, pout.max)

\* nine headlines in the response, six of them distinct, five returned
C13_FiveOfSix ==
  /\ pc = "returned"
  /\ Len(hist.rets) = 1
  /\ hist.rets[1].fn = "GenerateHeadlineOptions"
  /\ hist.resp.msg = EncodeList("headlines", NineItems)
  /\ Len(dedupeAndTrim(NineItems)) = 6
  /\ hist.rets[1].val = SubSeq(SevenItems, 1, 5)

\* n >= 1 trimmed, non-empty, pairwise distinct items
DistinctItems(items) ==
  /\ Len(items) >= 1
  /\ \A i \in DOMAIN items : items[i] = TrimSpace(items[i]) /\ items[i] # <<>>
  /\ \A i, j \in DOMAIN items : i # j => items[i] # items[j]

\* the response parsed line by line: blank lines dropped, leading bullets
\* and numbering removed, duplicates removed
ParsedLines(content) ==
  LET lines == SplitLines(TrimSpace(stripCodeFence(content)), <<>>)
      stripped == [i \in DOMAIN lines |-> TrimSpace(StripListMarker(TrimSpace(lines[i])))]
  IN dedupeAndTrim(DropEmpty(stripped))

\* the same, but a response that is a JSON array of strings is decoded as
\* one
ParsedArrayOrLines(content) ==
  LET list == UnmarshalStringList(TrimSpace(stripCodeFence(content))) IN
  IF TrimSpace(stripCodeFence(content)) # <<>> /\ ~list.err THEN dedupeAndTrim(list.val)
  ELSE ParsedLines(content)

IsTranslateList == Len(hist.calls) = 1 /\ hist.calls[1].fn = "TranslateList"

ToEnglish == EqualFold(TrimSpace(hist.calls[1].lang), <<"English">>)

\* TranslateList: no request for English or for an empty list; a success
\* for distinct items has as many items as the input
C14_State(Parsed(_)) ==
  IsTranslateList =>
    /\ (ToEnglish \/ hist.calls[1].a = <<>>) => (hist.trreq = 0 /\ pc # "http")
    /\ (Len(hist.rets) = 1 /\ hist.rets[1].ok /\ ~ToEnglish /\ DistinctItems(hist.calls[1].a)) =>
         /\ Len(hist.rets[1].val) = Len(hist.calls[1].a)
         /\ hist.trreq = 1 => hist.rets[1].val = Parsed(hist.resp.msg)
         /\ hist.trreq > 1 =>
              (hist.trreq = Len(hist.calls[1].a) + 1 /\ hist.rets[1].val = inv.trAcc)

\* TranslateList from a response on: the parsed list is an error when empty,
\* the result when it has n entries, and otherwise the items are translated
\* one by one, in order, with TranslateText
C14_Step(Parsed(_)) ==
  LET items == hist.calls[1].a
      n == Len(items)
      out == hist'.resp
      parsed == Parsed(out.msg)
      single == TrimSpace(stripCodeFence(out.msg))
      done == Len(inv'.trAcc)
  IN (IsTranslateList /\ pc = "http" /\ DistinctItems(items)) =>
       IF out.kind # "ok" THEN pc' = "done" /\ inv'.err = out
       ELSE IF req.step = "translate-list"
         THEN IF parsed = <<>>
              THEN pc' = "done" /\ inv'.err = Err("translation returned empty list")
              ELSE IF Len(parsed) = n
                THEN /\ pc' = "TranslateList returned"
                     /\ hist'.rets[1].val = parsed
                     /\ hist'.trreq = 1
              ELSE /\ pc' = "http"
                   /\ req'.step = "translate-article"
                   /\ req'.prompt.text = items[1]
                   /\ inv'.trAcc = <<>>
       ELSE IF single = <<>>
         THEN pc' = "done" /\ inv'.err = Err("translation returned empty text")
       ELSE /\ req.prompt.text = items[done]
            /\ inv'.trAcc = Append(inv.trAcc, single)
            /\ IF done < n
               THEN pc' = "http" /\ req'.step = "translate-article"
                    /\ req'.prompt.text = items[done + 1]
               ELSE pc' = "TranslateList returned" /\ hist'.rets[1].val = inv'.trAcc

C18_With(keyless(_)) ==
  /\ pc = "http" => (req.apiKey # <<>> /\ req.apiKey = svc.apiKey)
  /\ (svc.apiKey = <<>> /\ Len(hist.calls) = 1) =>
       /\ pc = "done"
       /\ hist.nreq = 0
       /\ hist.trreq = 0
       /\ inv.err = keyless(hist.calls[1])

KeyMissing(call) == ErrKeyMissing

KeyMissingOrEmptyText(call) ==
  IF call.fn = "ExtractFacts" /\ TrimSpaceText(call.a) = <<>>
  THEN Err("input text is empty") ELSE ErrKeyMissing

\* C18 as stated: no request is sent with an empty key; each of the seven
\* methods, called when the service's apiKey is empty, returns the API key
\* is missing error without a request, in every state NewOpenAIService and
\* calls of ApplySettings lead to.
C18_KeyMissingBeforeRequest == C18_With(KeyMissing)

\* C18, amended: as C18_KeyMissingBeforeRequest, except that ExtractFacts
\* called with a blank text returns input text is empty.
C18_NoRequestWithoutKey == C18_With(KeyMissingOrEmptyText)

\* the switch to openai with OPENAI_API_KEY unset emptied the key
C18_KeyLostBySwitch ==
  /\ env.GROQ_API_KEY # <<>>
  /\ svc.provider = <<"openai">>
  /\ svc.apiKey = <<>>
  /\ pc = "done"
  /\ Len(hist.calls) = 1
  /\ hist.calls[1].fn = "TranslateList"
  /\ inv.err = ErrKeyMissing

\* the value of the last member named key of a JSON object, null otherwise
FieldOf(v, key) ==
  IF v.t = "obj" /\ \E i \in DOMAIN v.val : v.val[i].k = key
  THEN v.val[CHOOSE i \in DOMAIN v.val :
               v.val[i].k = key /\ \A j \in DOMAIN v.val : v.val[j].k = key => j <= i].v
  ELSE JNull

NonBlank(v) == v.t = "str" /\ \E i \in DOMAIN v.val : v.val[i] \notin {SP, NL}

\* the message of an error body, in the order of the claim
MessageInOrder(body) ==
  LET doc == IF ParseJSON(body).ok THEN ParseJSON(body).v ELSE JNull IN
  IF NonBlank(FieldOf(FieldOf(doc, <<"error">>), <<"message">>))
    THEN FieldOf(FieldOf(doc, <<"error">>), <<"message">>).val
  ELSE IF NonBlank(FieldOf(doc, <<"error">>)) THEN FieldOf(doc, <<"error">>).val
  ELSE IF NonBlank(FieldOf(doc, <<"message">>)) THEN FieldOf(doc, <<"message">>).val
  ELSE body

\* the content of the first choice of a completion body, null when the body
\* has none
FirstChoiceContent(body) ==
  LET doc == IF ParseJSON(body).ok THEN ParseJSON(body).v ELSE JNull
      choices == FieldOf(doc, <<"choices">>)
  IN IF choices.t = "arr" /\ choices.val # <<>>
     THEN FieldOf(FieldOf(choices.val[1], <<"message">>), <<"content">>)
     ELSE JNull

\* C17: a response with status >= 400 becomes an apiRequestError with that
\* status and the message of the body: a non-blank error.message, else a
\* non-blank string-valued error, else a non-blank top-level message, else
\* the raw body; a response below 400 gives the trimmed content of the first
\* choice, and gives an error when the body is no JSON or has no choices.
C17_ResponseTurnedIntoResult ==
  pc = "read-done" =>
    IF pin.status >= 400
    THEN pout = ApiErr(pin.status, MessageInOrder(pin.body))
    ELSE /\ pout.kind \in {"ok", "err"}
         /\ FirstChoiceContent(pin.body).t = "str" =>
              pout = Content(TrimSpace(FirstChoiceContent(pin.body).val))
         /\ pout.kind = "ok" =>
              /\ ParseJSON(pin.body).ok
              /\ DecodeCompletion(ParseJSON(pin.body)).choices # <<>>
              /\ pout.msg = TrimSpace(DecodeCompletion(ParseJSON(pin.body)).choices[1])
         /\ (~ParseJSON(pin.body).ok
             \/ pin.body \in {Obj(Pair("choices", <<"[", "]">>)), Obj(Pair("id", Str(<<"x">>)))})
              => pout.kind = "err"

\* a blank error.message and a top-level message in a 429 body
C17_TopLevelMessageUsed ==
  /\ pc = "read-done"
  /\ pin.status = 429
  /\ pin.body = Obj(Pair("error", Obj(Pair("message", Str(<<SP>>)))) \o <<",">>
                      \o Pair("message", Str(<<"m3">>)))
  /\ pout = ApiErr(429, <<"m3">>)

\* the text and the URL AnalyseArticle works with
AnalyseText ==
  IF TrimSpaceText(pin.request.text) = <<>> THEN TrimSpaceText(pin.request.content)
  ELSE TrimSpaceText(pin.request.text)
AnalyseURL == TrimSpace(pin.request.url)

\* the article rows written since the request arrived
NewArticles ==
  tx.articles \o SubSeq(db.articles, Len(hist.db0.articles) + 1, Len(db.articles))

\* the GET of the URL ended in one of the failures of fetchURLText or in a
\* page without readable text
FetchUnreadable ==
  \/ hist.fetched.kind = "err"
  \/ /\ hist.fetched.kind = "http"
     /\ hist.fetched.status >= 400 \/ TrimSpaceText(hist.fetched.text) = <<>>

\* C15: a bound request whose text (or content) and url are both blank is
\* answered 400 'provide either text or url' with RunPhaseOne not invoked, no
\* LLM request and no row written; with a non-blank text the URL is never
\* fetched and is only stored as source_url beside the text; the URL is
\* fetched only when the text is blank, and an unparsable URL, a failed
\* fetch, a status >= 400 or a page without readable text end the invocation
\* in an error before any LLM request
C15_TextOrURLRequired ==
  (pin # <<>> /\ pin.bound) =>
    /\ (AnalyseText = <<>> /\ AnalyseURL = <<>>) =>
         /\ pc = "done"
         /\ pout = Answer(400, <<"provide either text or url">>)
         /\ inv = EmptyInv
         /\ hist.calls = <<>> /\ hist.nreq = 0
         /\ tx = NoTx /\ Rows(db) = hist.db0
    /\ (AnalyseText # <<>> \/ AnalyseURL # <<>>) =>
         /\ pout = <<>>
         /\ inv.input = In(AnalyseText, AnalyseURL, TrimSpace(pin.request.language), <<>>)
    /\ AnalyseText # <<>> =>
         /\ pc # "fetch" /\ hist.fetched = NoFetch
         /\ hist.calls # <<>> => inv.rawText = AnalyseText /\ inv.sourceURL = AnalyseURL
         /\ \A i \in DOMAIN NewArticles :
              /\ NewArticles[i].raw_text = AnalyseText
              /\ NewArticles[i].source_url = AnalyseURL
    /\ (pc = "fetch" \/ hist.fetched # NoFetch) =>
         AnalyseText = <<>> /\ IsRequestURI(AnalyseURL)
    /\ ( /\ AnalyseText = <<>> /\ AnalyseURL # <<>>
         /\ pc \notin {"settings", "fetch"}
         /\ ~IsRequestURI(AnalyseURL) \/ FetchUnreadable ) =>
         /\ pc = "done" /\ ~inv.ok /\ inv.err # NoErr
         /\ hist.calls = <<>> /\ hist.nreq = 0
         /\ tx = NoTx /\ Rows(db) = hist.db0

\* a request with text and url has been analysed and stored, the URL not
\* fetched
C15_TextStoredWithURL ==
  /\ pin # <<>> /\ pin.bound
  /\ AnalyseText = TxtShort /\ AnalyseURL = SomeURL
  /\ pc = "done" /\ inv.ok
  /\ hist.fetched = NoFetch
  /\ Len(db.articles) > Len(hist.db0.articles)
  /\ db.articles[Len(db.articles)].source_url = SomeURL

\* C16: the row chosen through UpdateSettings survives every later
\* ensureSchema under both drivers, and the two deployments, given the same
\* UpdateSettings calls and restarts, answer GetSettings with the same
\* provider and model
C16_SettingsSurviveRestart ==
  /\ hist.chosen # NoChoice => \A driver \in Drivers : db[driver].settings = hist.chosen
  /\ GetSettings(db["postgres"], TRUE) = GetSettings(db["mysql"], TRUE)
  /\ (pin = <<"GetSettings">>) => pout["postgres"] = pout["mysql"]

\* C20: an UpdateAnalysis call that returns an error (invalid status, empty
\* category, no fields provided, an article id without a row) leaves the
\* article rows and the topic rows as they were before the call
C20_ErrorLeavesDatabase ==
  (pin # <<>> /\ pout # NoErr) => Rows(db) = hist.db0

\* the provider, model, base URL and key the row selects
SelectedBy(row) == ApplySettings(NewOpenAIService(env), env, row.provider_key, row.model_key)

\* C19: every chat-completion request of an invocation carries the
\* provider, model, base URL and key selected by the app_settings row that
\* invocation read at its start, whatever other invocations and settings
\* updates do meanwhile
C19_RequestsUseOwnSettings ==
  \A i \in Invocations : \A k \in DOMAIN req[i] : req[i][k] = SelectedBy(inv[i].row)

\* C21: in every reachable database state every fact row and every gap row
\* holds a text that is not empty and has no white space at its ends
C21_RowTextsNonBlank ==
  /\ \A i \in DOMAIN db.facts :
       db.facts[i].fact_text # <<>> /\ TrimSpace(db.facts[i].fact_text) = db.facts[i].fact_text
  /\ \A i \in DOMAIN db.gaps :
       db.gaps[i].question # <<>> /\ TrimSpace(db.gaps[i].question) = db.gaps[i].question

\* the call before this state was an UpdateFact or an UpdateGap, with its
\* table before and after, and the arguments of the call
UpdateCalled == pin # <<>> /\ pin.call \in {"UpdateFact", "UpdateGap"}
TableBefore == IF pin.call = "UpdateFact" THEN hist.db0.facts ELSE hist.db0.gaps
TableAfter == IF pin.call = "UpdateFact" THEN db.facts ELSE db.gaps
Supplied == pin.args[2].set \/ pin.args[3].set \/ pin.args[4].set
RowExists == \E i \in DOMAIN TableBefore : TableBefore[i].id = pin.args[1]
ExpectedAfter ==
  IF pin.call = "UpdateFact"
    THEN UpdateFacts(hist.db0.facts, pin.args[1], pin.args[2], pin.args[3], pin.args[4])
  ELSE UpdateGaps(hist.db0.gaps, pin.args[1], pin.args[2], pin.args[3], pin.args[4])

\* C27: UpdateFact and UpdateGap change exactly the supplied fields of
\* exactly the row with the given id; they return the not-found error if
\* and only if no row has that id, under every driver, so that a repeated
\* update succeeds again; with no field supplied they return an error and
\* change nothing
C27_UpdateChangesSuppliedFields ==
  UpdateCalled =>
    /\ ~Supplied => pout # NoErr /\ Rows(db) = hist.db0
    /\ (Supplied /\ pout # Err("database error")) =>
         /\ (pout = ErrNoRows) <=> ~RowExists
         /\ pout \in {NoErr, ErrNoRows}
         /\ TableAfter = ExpectedAfter
    /\ [Rows(db) EXCEPT !.facts = <<>>, !.gaps = <<>>]
         = [hist.db0 EXCEPT !.facts = <<>>, !.gaps = <<>>]
    /\ pin.call = "UpdateFact" => db.gaps = hist.db0.gaps
    /\ pin.call = "UpdateGap" => db.facts = hist.db0.facts

\* the errors AdminService returns because of what the caller sent
InvalidInputErrors ==
  { ErrFactTextRequired, Err("no fact fields provided"), Err("no gap fields provided"),
    Err("no analysis fields provided"), ErrStatus, ErrCategoryEmpty, ErrSettingsRequired,
    ErrInvalidSelection }

\* C22: an error caused by invalid caller input is answered 400,
\* sql.ErrNoRows is answered 404 'record not found', and an answer 500
\* carries a database or driver failure
C22_InputErrorsAnswered400 ==
  pin # <<>> =>
    /\ pout.err \in InvalidInputErrors => pout.answer.status = 400
    /\ pout.err = ErrNoRows => pout.answer = [status |-> 404, error |-> <<"record not found">>]
    /\ pout.answer.status = 500 =>
         pout.err \in {Err("database error"), Err("unsupported database driver")}

\* C23: two calls of parseFirstStringArrayField, and two calls of
\* parseFirstStringField, on the same object text and key return the same
\* value
C23_ScanDeterministic ==
  Len(pout) = MaxScans => pout[1] = pout[2]

\* C24: no two topic rows have names equal ignoring case, and two calls
\* that have resolved categories equal ignoring case hold the same topic id
C24_TopicNamesUnique ==
  /\ \A r, q \in DOMAIN db.topics :
       ToLower(db.topics[r].name) = ToLower(db.topics[q].name) => r = q
  /\ \A i, j \in Callers :
       ( /\ pc[i] = "done" /\ pc[j] = "done"
         /\ inv[i].err = NoErr /\ inv[j].err = NoErr
         /\ EqualFold(inv[i].category, inv[j].category) )
       => inv[i].topicID = inv[j].topicID

\* every article row holds one of the three statuses
StatusesValid ==
  \A i \in DOMAIN db.articles : db.articles[i].status \in {"draft", "pending", "completed"}

\* the last UpdateAnalysis stored the trimmed lower-cased status, or
\* returned the status error and changed nothing
StatusStored ==
  (pin # <<>> /\ pin.call = "UpdateAnalysis" /\ pin.args[2].set) =>
    LET clean == ToLower(TrimSpace(pin.args[2].value))
    IN IF clean \in {<<"draft">>, <<"pending">>, <<"completed">>}
         THEN hist.resp = NoErr =>
                \E i \in DOMAIN db.articles :
                  db.articles[i].id = pin.args[1] /\ <<db.articles[i].status>> = clean
       ELSE hist.resp = ErrStatus /\ Rows(db) = hist.db0

\* C26: every article row has the status draft, pending or completed,
\* UpdateAnalysis stores the trimmed lower-cased status or rejects it and
\* changes nothing, and the pending and completed counts of a dashboard
\* answer do not exceed its total count
C26_StatusesAndCounts ==
  /\ StatusesValid
  /\ StatusStored
  /\ pc = "done" => pout.pending <= pout.total /\ pout.saved <= pout.total

\* the row names a provider and one of its models
RowMatches(row) ==
  \E pm \in ProviderModels : row.provider_key = <<pm[1]>> /\ row.model_key = <<pm[2]>>

\* C25: the app_settings row always names a model of the provider it
\* names; an UpdateSettings call with a blank or unknown provider or model,
\* or with a model of another provider, returns an error and leaves the row
\* as it was; a successful call stores its selection, which the next
\* GetSettings answers and the requests of the next RunPhaseOne carry
C25_SelectionValidAndReflected ==
  /\ RowMatches(db.settings)
  /\ hist.chosen # NoChoice => db.settings = hist.chosen
  /\ (pin # <<>> /\ pin.call = "UpdateSettings") =>
       LET row == [provider_key |-> TrimSpace(pin.providerKey),
                   model_key |-> TrimSpace(pin.modelKey)]
       IN /\ ~RowMatches(row) => hist.err # NoErr
          /\ hist.err # NoErr => db.settings = hist.before
          /\ hist.err = NoErr => db.settings = row
  /\ (pin # <<>> /\ pin.call = "GetSettings" /\ pout.err = NoErr) =>
       pout.provider = db.settings.provider_key /\ pout.model = db.settings.model_key
  /\ (pin # <<>> /\ pin.call = "RunPhaseOne" /\ req # NoReq) =>
       req.provider = db.settings.provider_key /\ req.model = db.settings.model_key

\* a RunPhaseOne that started after openai / gpt-4o was chosen has sent its
\* request to that provider and model
C25_ChosenModelRequested ==
  /\ pin # <<>> /\ pin.call = "RunPhaseOne"
  /\ hist.chosen = [provider_key |-> <<"openai">>, model_key |-> <<"gpt-4o">>]
  /\ req # NoReq
  /\ req.provider = <<"openai">> /\ req.model = <<"gpt-4o">>

====
